---- MODULE Spec2Model ----
(***************************************************************************)
(* A model of the Agent Skills Manager extension: host (IDE) resolution,   *)
(* content fingerprinting of skill directories, the fingerprint cache, the *)
(* installed-skill index of the tree provider and the install / delete /   *)
(* refresh commands.                                                       *)
(*                                                                         *)
(* JavaScript strings are modelled as sequences of one-character strings,  *)
(* so that toLowerCase, includes, startsWith, template concatenation,      *)
(* join and the default sort order are computed as the code computes them. *)
(***************************************************************************)
EXTENDS Integers, Sequences, FiniteSets, TLC

VARIABLES
    env,        \* process.env: OPENSKILLS_IDE, VSCODE_ENV_APPNAME, PROG_IDE_NAME
    appName,    \* vscode.env.appName
    ideOut,     \* the last call of the host resolver and what it returned
    dirFs,      \* a skill directory on disk, as a tree
    fpOp,       \* the last operation on dirFs and the fingerprints around it
    fs,         \* the skill directories on disk: repository copies and installed copies
    hashCache,  \* skillCompare.ts: hashCache (path -> hash, mtime)
    installedSkillHashes,  \* SkillsProvider.installedSkillHashes (name -> hash)
    checkedSkills,         \* SkillsProvider.checkedSkills (keys repoUrl::name)
    skillCache,            \* SkillsProvider.skillCache (key -> Skill)
    shown,      \* the Skill nodes the tree view displays under each repository
    pending,    \* getChildren(repo) calls that await GitService.getSkillsFromRepo
    lastOp,     \* the last command that finished, or the last change by another program
    rules,      \* the rules file of the active host, as syncToAgentsMd finds it
    syncedSkillsCache, \* SkillsProvider.syncedSkillsCache (skill name -> location)
    job         \* the install or delete command that awaits, and what it selected

ideVars == <<env, appName, ideOut>>

hashVars == <<dirFs, fpOp>>

provVars == <<fs, hashCache, installedSkillHashes, checkedSkills, skillCache, shown,
              pending, lastOp>>

syncVars == <<rules, syncedSkillsCache>>

cmdVars == <<job>>

vars == <<env, appName, ideOut, dirFs, fpOp, fs, hashCache, installedSkillHashes,
          checkedSkills, skillCache, shown, pending, lastOp, rules, syncedSkillsCache,
          job>>

----------------------------------------------------------------------------
(* Strings *)

\* The characters used by the model, in UTF-16 code unit order.
Alphabet ==
    << "\n", " ", ".", "/",
       "0", "1", "2", "3", "4", "5", "6", "7", "8", "9", ":",
       "A", "B", "C", "D", "E", "F", "G", "H", "I", "J", "K", "L", "M",
       "N", "O", "P", "Q", "R", "S", "T", "U", "V", "W", "X", "Y", "Z",
       "\\",
       "a", "b", "c", "d", "e", "f", "g", "h", "i", "j", "k", "l", "m",
       "n", "o", "p", "q", "r", "s", "t", "u", "v", "w", "x", "y", "z" >>

\* The position of every character in that order, computed once
CharCodes ==
    [c \in { Alphabet[i] : i \in 1..Len(Alphabet) } |->
        CHOOSE i \in 1..Len(Alphabet) : Alphabet[i] = c]

CharCode(c) == CharCodes[c]

UpperCaseLetters ==
    << "A", "B", "C", "D", "E", "F", "G", "H", "I", "J", "K", "L", "M",
       "N", "O", "P", "Q", "R", "S", "T", "U", "V", "W", "X", "Y", "Z" >>

LowerCaseLetters ==
    << "a", "b", "c", "d", "e", "f", "g", "h", "i", "j", "k", "l", "m",
       "n", "o", "p", "q", "r", "s", "t", "u", "v", "w", "x", "y", "z" >>

\* String.prototype.toLowerCase, one character
LowerChar(c) ==
    IF \E i \in 1..Len(UpperCaseLetters) : UpperCaseLetters[i] = c
    THEN LowerCaseLetters[CHOOSE i \in 1..Len(UpperCaseLetters) : UpperCaseLetters[i] = c]
    ELSE c

\* String.prototype.toLowerCase
toLowerCase(s) == [i \in 1..Len(s) |-> LowerChar(s[i])]

\* String.prototype.includes
includes(s, sub) ==
    \E i \in 0..(Len(s) - Len(sub)) : SubSeq(s, i + 1, i + Len(sub)) = sub

\* String.prototype.startsWith
startsWith(s, prefix) ==
    /\ Len(prefix) <= Len(s)
    /\ SubSeq(s, 1, Len(prefix)) = prefix

\* An environment variable that is not set
Undefined == << "<undefined>" >>

\* JavaScript truthiness of a string-or-undefined value
Truthy(s) == s # Undefined /\ s # << >>

----------------------------------------------------------------------------
(* Host resolver: src/src/utils/ide.ts *)

VSCODE == << "v", "s", "c", "o", "d", "e" >>
CURSOR == << "c", "u", "r", "s", "o", "r" >>
WINDSURF == << "w", "i", "n", "d", "s", "u", "r", "f" >>
TRAE == << "t", "r", "a", "e" >>
ANTIGRAVITY == << "a", "n", "t", "i", "g", "r", "a", "v", "i", "t", "y" >>

\* Object.values(IdeType)
IdeType == {VSCODE, CURSOR, WINDSURF, TRAE, ANTIGRAVITY}

\* rulesFile and initialContent of each profile; the text of a template is
\* kept as one opaque value
IDE_CONFIGS(ide) ==
    CASE ide = ANTIGRAVITY ->
           [type |-> ANTIGRAVITY, rulesFile |-> ".agent/rules/openskills.md",
            initialContent |-> "---\ntrigger: always_on\n---\nInsert overview text here.\n\n"]
      [] ide = CURSOR ->
           [type |-> CURSOR, rulesFile |-> ".cursor/rules/openskills.mdc",
            initialContent |-> "---\nalwaysApply: true\n---\nInsert overview text here.\n\n"]
      [] ide = WINDSURF ->
           [type |-> WINDSURF, rulesFile |-> ".windsurf/rules/openskills.md",
            initialContent |-> "---\ntrigger: manual\n---\nInsert overview text here.\n\n"]
      [] ide = TRAE ->
           [type |-> TRAE, rulesFile |-> ".trae/rules/openskills.md",
            initialContent |-> "---\nalwaysApply: true\n---\nInsert overview text here.\n\n"]
      [] ide = VSCODE ->
           [type |-> VSCODE, rulesFile |-> "AGENTS.md",
            initialContent |-> "# AGENTS\n\nInsert overview text here.\n\n"]

\* resolveIdeType with the first two tests exchanged
resolveIdeTypeWindsurfFirst(name) ==
    LET lowerAppName == toLowerCase(name)
    IN  IF includes(lowerAppName, WINDSURF) THEN WINDSURF
        ELSE IF includes(lowerAppName, CURSOR) THEN CURSOR
        ELSE IF includes(lowerAppName, TRAE) THEN TRAE
        ELSE IF includes(lowerAppName, ANTIGRAVITY) THEN ANTIGRAVITY
        ELSE VSCODE

resolveIdeType(name) ==
    LET lowerAppName == toLowerCase(name)
    IN  IF includes(lowerAppName, CURSOR) THEN CURSOR
        ELSE IF includes(lowerAppName, WINDSURF) THEN WINDSURF
        ELSE IF includes(lowerAppName, TRAE) THEN TRAE
        ELSE IF includes(lowerAppName, ANTIGRAVITY) THEN ANTIGRAVITY
        ELSE VSCODE

\* detectIde that consults the override only after the application name
detectIdeHintFirst(e) ==
    LET hint == IF Truthy(e.VSCODE_ENV_APPNAME) THEN e.VSCODE_ENV_APPNAME
                ELSE IF Truthy(e.PROG_IDE_NAME) THEN e.PROG_IDE_NAME
                ELSE << >>
    IN  IF resolveIdeType(hint) # VSCODE THEN resolveIdeType(hint)
        ELSE IF Truthy(e.OPENSKILLS_IDE) /\ toLowerCase(e.OPENSKILLS_IDE) \in IdeType
             THEN toLowerCase(e.OPENSKILLS_IDE)
        ELSE VSCODE

detectIde(e) ==
    IF Truthy(e.OPENSKILLS_IDE) /\ toLowerCase(e.OPENSKILLS_IDE) \in IdeType
    THEN toLowerCase(e.OPENSKILLS_IDE)
    ELSE LET name == IF Truthy(e.VSCODE_ENV_APPNAME) THEN e.VSCODE_ENV_APPNAME
                     ELSE IF Truthy(e.PROG_IDE_NAME) THEN e.PROG_IDE_NAME
                     ELSE << >>
         IN  resolveIdeType(name)

\* getIdeConfig that gives every string outside the enum the default row
getIdeConfigDefaultRow(ide) ==
    [status |-> "ok", config |-> IDE_CONFIGS(IF ide \in IdeType THEN ide ELSE VSCODE)]

\* The lookup never throws: every string reaches a row of IDE_CONFIGS.
getIdeConfig(ide) ==
    LET ideType == IF ide \in IdeType THEN ide ELSE resolveIdeType(ide)
    IN  [status |-> "ok", config |-> IDE_CONFIGS(ideType)]

----------------------------------------------------------------------------
(* Directory trees *)

SKILLMD == << "S", "K", "I", "L", "L", ".", "m", "d" >>

\* The entry names of the model: the descriptor, a plain name, a hidden name
Names == { SKILLMD, << "a" >>, << ".", "h" >> }

\* File contents
Contents == { << "x" >>, << "y" >> }

\* Link targets, as readlinkSync returns them: one reads like a file content
\* and names nothing, the other names the hidden entry next to the link
Targets == { << "x" >>, << ".", "h" >> }

None == [kind |-> "none"]

File(bytes) == [kind |-> "file", data |-> bytes]

Link(target) == [kind |-> "link", data |-> target]

Dir(kids) == [kind |-> "dir", kids |-> kids]

\* A directory is a function from names to nodes; None marks an absent name
EmptyDir == [n \in Names |-> None]

\* The node at a path (a non-empty sequence of names) of a directory
RECURSIVE NodeAt(_, _)
NodeAt(dir, path) ==
    IF Len(path) = 1 THEN dir[path[1]]
    ELSE IF dir[path[1]].kind = "dir" THEN NodeAt(dir[path[1]].kids, Tail(path))
    ELSE None

\* The directory with the node at a path replaced
RECURSIVE WithNode(_, _, _)
WithNode(dir, path, node) ==
    IF Len(path) = 1 THEN [dir EXCEPT ![path[1]] = node]
    ELSE [dir EXCEPT ![path[1]] = Dir(WithNode(dir[path[1]].kids, Tail(path), node))]

\* The parent of a path is the directory itself or a directory in it
ParentIsDir(dir, path) ==
    IF Len(path) = 1 THEN TRUE
    ELSE NodeAt(dir, SubSeq(path, 1, Len(path) - 1)).kind = "dir"

RECURSIVE NodeCount(_)
NodeCount(dir) ==
    LET RECURSIVE Sum(_)
        Sum(S) == IF S = {} THEN 0
                  ELSE LET n == CHOOSE n \in S : TRUE
                       IN  (IF dir[n].kind = "none" THEN 0
                            ELSE IF dir[n].kind = "dir" THEN 1 + NodeCount(dir[n].kids)
                            ELSE 1) + Sum(S \ {n})
    IN  Sum(Names)

\* Every order in which the elements of a set can be enumerated
RECURSIVE Perms(_)
Perms(S) ==
    IF S = {} THEN { << >> }
    ELSE UNION { { << x >> \o p : p \in Perms(S \ {x}) } : x \in S }

\* fs.readdirSync(dir, { withFileTypes: true }) returns the entries in an
\* order the filesystem chooses: Listings(dir) is every result it can give,
\* at every depth.  A Dirent carries name and kind; data and kids stand for
\* what readFileSync / readlinkSync / readdirSync find at that entry.
RECURSIVE Listings(_), ExpandListing(_, _)
Listings(dir) ==
    UNION { ExpandListing(p, dir) : p \in Perms({ n \in Names : dir[n].kind # "none" }) }

ExpandListing(p, dir) ==
    IF p = << >> THEN { << >> }
    ELSE LET n == Head(p)
             heads ==
                 IF dir[n].kind = "dir"
                 THEN { [name |-> n, kind |-> "dir", data |-> << >>, kids |-> l] :
                            l \in Listings(dir[n].kids) }
                 ELSE { [name |-> n, kind |-> dir[n].kind, data |-> dir[n].data,
                         kids |-> << >>] }
         IN  { << h >> \o r : h \in heads, r \in ExpandListing(Tail(p), dir) }

----------------------------------------------------------------------------
(* Content fingerprinting: src/src/utils/skillCompare.ts *)

\* s < t in the order of Array.prototype.sort without a comparator
\* (by UTF-16 code units)
RECURSIVE StringLess(_, _)
StringLess(s, t) ==
    IF t = << >> THEN FALSE
    ELSE IF s = << >> THEN TRUE
    ELSE IF s[1] = t[1] THEN StringLess(Tail(s), Tail(t))
    ELSE CharCode(s[1]) < CharCode(t[1])

RECURSIVE InsertSorted(_, _)
InsertSorted(x, sorted) ==
    IF sorted = << >> THEN << x >>
    ELSE IF StringLess(Head(sorted), x) THEN << Head(sorted) >> \o InsertSorted(x, Tail(sorted))
    ELSE << x >> \o sorted

\* Array.prototype.sort
RECURSIVE sort(_)
sort(a) == IF a = << >> THEN << >> ELSE InsertSorted(Head(a), sort(Tail(a)))

\* Array.prototype.join
RECURSIVE join(_, _)
join(a, sep) ==
    IF a = << >> THEN << >>
    ELSE IF Len(a) = 1 THEN a[1]
    ELSE a[1] \o sep \o join(Tail(a), sep)

\* .replace(/\\/g, '/')
normalizeSeparators(s) == [i \in 1..Len(s) |-> IF s[i] = "\\" THEN "/" ELSE s[i]]

HexDigits == << "0", "1", "2", "3", "4", "5", "6", "7", "8", "9",
                "a", "b", "c", "d", "e", "f" >>

\* The strings hashed as file contents and link targets, numbered
DigestTable == << << "x" >>, << "y" >> >>

\* crypto.createHash('md5').update(s).digest('hex'), taken to be free of
\* collisions: a string of the table gets the fixed-length hex code of its
\* number, any other string an injective stand-in no hex code equals.
md5hex(s) ==
    IF \E i \in 1..Len(DigestTable) : DigestTable[i] = s
    THEN LET i == CHOOSE i \in 1..Len(DigestTable) : DigestTable[i] = s
         IN  << HexDigits[(i \div 16) + 1], HexDigits[(i % 16) + 1] >>
    ELSE << "m", "d", "5", ":" >> \o s

computeFileHash(bytes) == md5hex(bytes)

\* collectFileHashes that returns the lines in enumeration order
RECURSIVE collectFileHashesUnsorted(_, _)
collectFileHashesUnsorted(entries, prefix) ==
    IF entries = << >> THEN << >>
    ELSE LET entry == Head(entries)
             rest == collectFileHashesUnsorted(Tail(entries), prefix)
             relativePath == normalizeSeparators(prefix \o entry.name)
         IN  IF startsWith(entry.name, << "." >>) THEN rest
             ELSE IF entry.kind = "dir"
                  THEN collectFileHashesUnsorted(entry.kids, relativePath \o << "/" >>) \o rest
             ELSE IF entry.kind = "file"
                  THEN << relativePath \o << ":" >> \o computeFileHash(entry.data) >> \o rest
             ELSE << relativePath \o << ":", "l", "i", "n", "k", ":" >> \o md5hex(entry.data) >>
                  \o rest

\* collectFileHashes that does not skip hidden entries
RECURSIVE collectFileHashesWithHidden(_, _)
collectFileHashesWithHidden(entries, prefix) ==
    LET RECURSIVE Loop(_)
        Loop(es) ==
            IF es = << >> THEN << >>
            ELSE LET entry == Head(es)
                     relativePath == normalizeSeparators(prefix \o entry.name)
                 IN  IF entry.kind = "dir"
                     THEN collectFileHashesWithHidden(entry.kids, relativePath \o << "/" >>)
                          \o Loop(Tail(es))
                     ELSE IF entry.kind = "file"
                     THEN << relativePath \o << ":" >> \o computeFileHash(entry.data) >>
                          \o Loop(Tail(es))
                     ELSE << relativePath \o << ":", "l", "i", "n", "k", ":" >>
                             \o md5hex(entry.data) >> \o Loop(Tail(es))
    IN  sort(Loop(entries))

\* collectFileHashes that follows a symbolic link to the entry its target
\* names in the directory of the link, as a Dirent built from stat would
RECURSIVE collectFileHashesFollowingLinks(_, _)
collectFileHashesFollowingLinks(entries, prefix) ==
    LET Resolved(entry) ==
            IF entry.kind = "link"
               /\ \E i \in 1..Len(entries) :
                      entries[i].name = entry.data /\ entries[i].kind \in {"file", "dir"}
            THEN LET i == CHOOSE i \in 1..Len(entries) : entries[i].name = entry.data
                 IN  [entries[i] EXCEPT !.name = entry.name]
            ELSE entry
        RECURSIVE Loop(_)
        Loop(es) ==
            IF es = << >> THEN << >>
            ELSE LET entry == Resolved(Head(es))
                     relativePath == normalizeSeparators(prefix \o entry.name)
                 IN  IF startsWith(entry.name, << "." >>) THEN Loop(Tail(es))
                     ELSE IF entry.kind = "dir"
                     THEN collectFileHashesFollowingLinks(entry.kids, relativePath \o << "/" >>)
                          \o Loop(Tail(es))
                     ELSE IF entry.kind = "file"
                     THEN << relativePath \o << ":" >> \o computeFileHash(entry.data) >>
                          \o Loop(Tail(es))
                     ELSE << relativePath \o << ":", "l", "i", "n", "k", ":" >>
                             \o md5hex(entry.data) >> \o Loop(Tail(es))
    IN  sort(Loop(entries))

\* collectFileHashes(dirPath, basePath) on the listing of dirPath; prefix is
\* the path of dirPath relative to basePath, with a trailing separator when
\* it is not empty.  The loop pushes the lines of each entry in enumeration
\* order, a subdirectory's lines already sorted, and the result is sorted.
RECURSIVE collectFileHashes(_, _)
collectFileHashes(entries, prefix) ==
    LET RECURSIVE Loop(_)
        Loop(es) ==
            IF es = << >> THEN << >>
            ELSE LET entry == Head(es)
                     relativePath == normalizeSeparators(prefix \o entry.name)
                 IN  IF startsWith(entry.name, << "." >>) THEN Loop(Tail(es))
                     ELSE IF entry.kind = "dir"
                     THEN collectFileHashes(entry.kids, relativePath \o << "/" >>)
                          \o Loop(Tail(es))
                     ELSE IF entry.kind = "file"
                     THEN << relativePath \o << ":" >> \o computeFileHash(entry.data) >>
                          \o Loop(Tail(es))
                     ELSE << relativePath \o << ":", "l", "i", "n", "k", ":" >>
                             \o md5hex(entry.data) >> \o Loop(Tail(es))
    IN  sort(Loop(entries))

\* computeDirectoryHash of a directory that readdirSync lists as `listing`
computeDirectoryHash(listing) ==
    LET fileHashes == collectFileHashes(listing, << >>)
        combined == join(fileHashes, << "\n" >>)
    IN  md5hex(combined)

(***************************************************************************)
(* The disk as the tree provider and the commands see it                   *)
(***************************************************************************)

ALPHA == << "a", "l", "p", "h", "a" >>

\* names of skill directories
SkillNames == { ALPHA }

\* a hidden entry of a skills directory (as .curated, .experimental)
HiddenSkill == << ".", "c" >>

\* the names the entries of a skills directory can have
EntryNames == SkillNames \cup { HiddenSkill }

\* configured repositories (ConfigManager.getRepos), by url
Repos == { "r1" }

\* README.md, Configuration: the project skills directory of each IDE
GITHUB_SKILLS == ".github/skills"
CURSOR_SKILLS == ".cursor/skills"
WINDSURF_SKILLS == ".windsurf/skills"
TRAE_SKILLS == ".trae/skills"
AGENT_SKILLS == ".agent/skills"

\* a personal skills directory under the home directory
HOME_AGENT_SKILLS == "~/.agent/skills"

\* the skills directories the disk holds
SkillsDirs == { GITHUB_SKILLS, CURSOR_SKILLS, HOME_AGENT_SKILLS }

\* Skill.localPath: the copy of a skill in the working tree of a repository
RepoPath(r, n) == << "repo", r, n >>

\* path.join(dir, name)
DirPath(d, n) == << "dir", d, n >>

SkillPaths ==
    { RepoPath(r, n) : r \in Repos, n \in SkillNames }
        \cup { DirPath(d, n) : d \in SkillsDirs, n \in EntryNames }

\* the mtimeMs values a directory can have: the cache only compares them
\* for equality
Mtimes == { 0, 1 }

\* the mtimeMs of a directory after an entry was added, removed or replaced
Touched(mtime) == 1 - mtime

\* What can fail on a directory that exists: nothing, fs.statSync, or
\* fs.readdirSync (of the directory or of a directory below it)
Faults == { "none", "stat", "readdir" }

\* What a path holds: whether fs.existsSync finds it, the kind of its
\* Dirent ("dir", "file", "link" for a symbolic link to a directory,
\* "filelink" for a symbolic link to a regular file), the entries of the
\* directory it is or leads to, and the mtimeMs statSync gives
Absent ==
    [exists |-> FALSE, dirent |-> "none", tree |-> EmptyDir, mtime |-> 0, fault |-> "none"]

SkillDir(tree, mtime) ==
    [exists |-> TRUE, dirent |-> "dir", tree |-> tree, mtime |-> mtime, fault |-> "none"]

\* a symbolic link to a directory with these entries
LinkedDir(tree) == [SkillDir(tree, 0) EXCEPT !.dirent = "link"]

\* a regular file, and a symbolic link to one
PlainFile == [SkillDir(EmptyDir, 0) EXCEPT !.dirent = "file"]
LinkedFile == [SkillDir(EmptyDir, 0) EXCEPT !.dirent = "filelink"]

\* a directory on which statSync or readdirSync throws
FailingDir(tree, mtime, fault) == [SkillDir(tree, mtime) EXCEPT !.fault = fault]

\* fs.existsSync(p); a path outside the modelled directories does not exist
existsSync(f, p) == p \in DOMAIN f /\ f[p].exists

\* fs.existsSync(path.join(p, 'SKILL.md'))
hasSkillMd(f, p) == existsSync(f, p) /\ f[p].tree[SKILLMD].kind # "none"

\* fs.readFileSync(path.join(p, 'SKILL.md'), 'utf-8') returns: it throws
\* EISDIR when SKILL.md is a directory
readableSkillMd(f, p) == hasSkillMd(f, p) /\ f[p].tree[SKILLMD].kind # "dir"

\* Dirent.isDirectory() of the entry at a path: false for a symbolic link
isDirectory(f, p) == existsSync(f, p) /\ f[p].dirent = "dir"

\* Dirent.isSymbolicLink()
isSymbolicLink(f, p) == existsSync(f, p) /\ f[p].dirent \in { "link", "filelink" }

\* the fingerprint computeDirectoryHash gives for a tree (any enumeration
\* order of readdirSync)
TreeHash(tree) == computeDirectoryHash(CHOOSE l \in Listings(tree) : TRUE)

\* the trees of the skills on disk
TreeX == [EmptyDir EXCEPT ![SKILLMD] = File(<< "x" >>)]
TreeY == [EmptyDir EXCEPT ![SKILLMD] = File(<< "y" >>)]

\* a folder whose SKILL.md is itself a directory
TreeD == [EmptyDir EXCEPT ![SKILLMD] = Dir(EmptyDir)]

\* utils/fs: copyRecursiveSync(src, dest) on the entries of a directory:
\* files of src replace those of dest, directories are descended into, and
\* entries only dest has stay
RECURSIVE copyRecursiveSync(_, _)
copyRecursiveSync(src, dest) ==
    [n \in Names |->
        IF src[n].kind = "none" THEN dest[n]
        ELSE IF src[n].kind = "dir"
             THEN Dir(copyRecursiveSync(src[n].kids,
                          IF dest[n].kind = "dir" THEN dest[n].kids ELSE EmptyDir))
             ELSE src[n]]

(***************************************************************************)
(* The fingerprint cache: src/src/utils/skillCompare.ts                    *)
(***************************************************************************)

NoEntry == [cached |-> FALSE, hash |-> << >>, mtime |-> 0]

CacheEntry(hash, mtime) == [cached |-> TRUE, hash |-> hash, mtime |-> mtime]

\* clearHashCache()
clearHashCache == [p \in SkillPaths |-> NoEntry]

\* The cache holds an entry for the path whose recorded mtime is the
\* current one
CacheHit(cache, f, p) == cache[p].cached /\ cache[p].mtime = f[p].mtime

\* getCachedDirectoryHash that takes any entry of the path, whatever its mtime
getCachedDirectoryHashAnyMtime(cache, f, p) ==
    IF ~existsSync(f, p) THEN [hash |-> << >>, cache |-> cache]
    ELSE IF f[p].fault = "stat" THEN [hash |-> << >>, cache |-> cache]
    ELSE IF cache[p].cached
         THEN [hash |-> cache[p].hash, cache |-> cache]
    ELSE IF f[p].fault = "readdir" THEN [hash |-> << >>, cache |-> cache]
    ELSE LET hash == TreeHash(f[p].tree)
         IN  [hash |-> hash,
              cache |-> [cache EXCEPT ![p] = CacheEntry(hash, f[p].mtime)]]

\* getCachedDirectoryHash without the existsSync test and the try/catch, on
\* a computeDirectoryHash that gives a failed listing no lines: a path that
\* is missing or cannot be read gets the fingerprint of the empty directory
getCachedDirectoryHashOfNothing(cache, f, p) ==
    IF ~existsSync(f, p) \/ f[p].fault # "none"
    THEN LET hash == TreeHash(EmptyDir)
         IN  [hash |-> hash, cache |-> [cache EXCEPT ![p] = CacheEntry(hash, f[p].mtime)]]
    ELSE IF cache[p].cached /\ cache[p].mtime = f[p].mtime
         THEN [hash |-> cache[p].hash, cache |-> cache]
    ELSE LET hash == TreeHash(f[p].tree)
         IN  [hash |-> hash,
              cache |-> [cache EXCEPT ![p] = CacheEntry(hash, f[p].mtime)]]

\* getCachedDirectoryHash(dirPath): the hash returned and the cache
\* afterwards.  statSync throwing, or readdirSync throwing inside
\* computeDirectoryHash, ends in the catch: '' and no hashCache.set
getCachedDirectoryHash(cache, f, p) ==
    IF ~existsSync(f, p) THEN [hash |-> << >>, cache |-> cache]
    ELSE IF f[p].fault = "stat" THEN [hash |-> << >>, cache |-> cache]
    ELSE IF cache[p].cached /\ cache[p].mtime = f[p].mtime
         THEN [hash |-> cache[p].hash, cache |-> cache]
    ELSE IF f[p].fault = "readdir" THEN [hash |-> << >>, cache |-> cache]
    ELSE LET hash == TreeHash(f[p].tree)
         IN  [hash |-> hash,
              cache |-> [cache EXCEPT ![p] = CacheEntry(hash, f[p].mtime)]]

(***************************************************************************)
(* Where skills are installed                                              *)
(***************************************************************************)

\* utils/ide: detectIde(process.env, vscode.env.appName), the host the
\* commands resolve: the override when it names a host, else the host of the
\* application name
detectIdeOfApp(e, name) ==
    LET override == IF Truthy(e.OPENSKILLS_IDE)
                    THEN toLowerCase(e.OPENSKILLS_IDE) ELSE << >>
    IN  IF override \in IdeType THEN override ELSE resolveIdeType(name)

\* utils/ide: getProjectSkillsDir(workspaceRoot, ide), relative to the
\* workspace root; a string that is no host id is resolved as a host name
getProjectSkillsDir(ide) ==
    LET ideType == IF ide \in IdeType THEN ide ELSE resolveIdeType(ide)
    IN  CASE ideType = CURSOR -> CURSOR_SKILLS
          [] ideType = WINDSURF -> WINDSURF_SKILLS
          [] ideType = TRAE -> TRAE_SKILLS
          [] ideType = ANTIGRAVITY -> AGENT_SKILLS
          [] OTHER -> GITHUB_SKILLS

\* extension.ts: targetBase of the install and delete commands
targetBase(e, name) == getProjectSkillsDir(detectIdeOfApp(e, name))

\* SkillsProvider.getInstalledSkillsDir()
getInstalledSkillsDir(name) == getProjectSkillsDir(name)

(***************************************************************************)
(* The installed-skill index and the match status:                         *)
(* src/src/skillsProvider.ts                                               *)
(***************************************************************************)

NotInstalled == "not_installed"
Matched == "matched"
Conflict == "conflict"

\* installedSkillHashes.clear()
EmptyIndex == [n \in EntryNames |-> Undefined]

\* installedSkillHashes.size
IndexSize(index) == Cardinality({ n \in EntryNames : index[n] # Undefined })

\* the order of the entries readdirSync returns does not matter to the loops
\* below: each entry writes its own key
SeqOf(S) == CHOOSE q \in Perms(S) : TRUE

\* the entries of a skills directory that can exist, in one such order
SkillNameSeq == SeqOf(EntryNames)

\* updateInstalledSkillHashes() without installedSkillHashes.clear()
updateInstalledSkillHashesKeepingIndex(cache, f, dir) ==
    LET RECURSIVE Loop(_, _, _)
        Loop(entries, index, c) ==
            IF entries = << >> THEN [index |-> index, cache |-> c]
            ELSE LET name == Head(entries)
                     skillDir == DirPath(dir, name)
                 IN  IF isDirectory(f, skillDir) /\ ~startsWith(name, << "." >>)
                        /\ hasSkillMd(f, skillDir)
                     THEN LET r == getCachedDirectoryHash(c, f, skillDir)
                          IN  Loop(Tail(entries),
                                   [index EXCEPT ![name] = r.hash], r.cache)
                     ELSE Loop(Tail(entries), index, c)
    IN  Loop(SkillNameSeq, installedSkillHashes, cache)

\* updateInstalledSkillHashes(): the index and the cache afterwards
updateInstalledSkillHashes(cache, f, dir) ==
    LET RECURSIVE Loop(_, _, _)
        Loop(entries, index, c) ==
            IF entries = << >> THEN [index |-> index, cache |-> c]
            ELSE LET name == Head(entries)
                     skillDir == DirPath(dir, name)
                 IN  IF isDirectory(f, skillDir) /\ ~startsWith(name, << "." >>)
                        /\ hasSkillMd(f, skillDir)
                     THEN LET r == getCachedDirectoryHash(c, f, skillDir)
                          IN  Loop(Tail(entries),
                                   [index EXCEPT ![name] = r.hash], r.cache)
                     ELSE Loop(Tail(entries), index, c)
    IN  Loop(SkillNameSeq, EmptyIndex, cache)

\* refresh() without the cache clear
refreshKeepingCache(cache, f, dir) == updateInstalledSkillHashes(cache, f, dir)

\* refresh(): clearHashCache(); updateInstalledSkillHashes()
refresh(cache, f, dir) == updateInstalledSkillHashes(clearHashCache, f, dir)

\* a Skill of a repository (types.ts)
Skill(r, n, status) ==
    [name |-> n, repoUrl |-> r, localPath |-> RepoPath(r, n), matchStatus |-> status]

NoSkill == [name |-> << >>, repoUrl |-> "", localPath |-> << >>, matchStatus |-> ""]

\* getSkillMatchStatus with Matched and Conflict exchanged
getSkillMatchStatusSwapped(index, cache, f, skill) ==
    LET installedHash == index[skill.name]
    IN  IF ~Truthy(installedHash) THEN [status |-> NotInstalled, cache |-> cache]
        ELSE IF Truthy(skill.localPath) /\ existsSync(f, skill.localPath)
             THEN LET r == getCachedDirectoryHash(cache, f, skill.localPath)
                  IN  [status |-> IF installedHash = r.hash THEN Conflict ELSE Matched,
                       cache |-> r.cache]
             ELSE [status |-> NotInstalled, cache |-> cache]

\* getSkillMatchStatus(skill): the status and the cache afterwards
getSkillMatchStatus(index, cache, f, skill) ==
    LET installedHash == index[skill.name]
    IN  IF ~Truthy(installedHash) THEN [status |-> NotInstalled, cache |-> cache]
        ELSE IF Truthy(skill.localPath) /\ existsSync(f, skill.localPath)
             THEN LET r == getCachedDirectoryHash(cache, f, skill.localPath)
                  IN  [status |-> IF installedHash = r.hash THEN Matched ELSE Conflict,
                       cache |-> r.cache]
             ELSE [status |-> NotInstalled, cache |-> cache]

\* checkedSkills / skillCache key: `${repoUrl}::${name}`
Keys == Repos \X SkillNames

NoOp == [op |-> "none"]

\* no command awaits
NoJob == [phase |-> "idle"]

\* A line of the rules file: text of the user or of the template, the
\* opening or closing marker of the generated block, or the entry of a skill
Line(kind, text, name, location) ==
    [kind |-> kind, text |-> text, name |-> name, location |-> location]

\* The rules file and its directory: whether each exists, the lines of the
\* file, and the call that fails on them (none, mkdirSync, readFileSync or
\* writeFileSync)
RulesFile(dirExists, exists, content, fault) ==
    [dirExists |-> dirExists, exists |-> exists, content |-> content, fault |-> fault]

\* no rules file, in a directory that exists
NoRulesFile == RulesFile(TRUE, FALSE, << >>, "none")

\* syncedSkillsCache.clear(): no name has a location ("" for a name that
\* Map.get does not find)
NoSynced == [n \in EntryNames |-> ""]

\* the provider as constructed, on a disk without skills
ProviderIdle ==
    /\ fs = [p \in SkillPaths |-> Absent]
    /\ hashCache = clearHashCache
    /\ installedSkillHashes = EmptyIndex
    /\ checkedSkills = { }
    /\ skillCache = [k \in Keys |-> NoSkill]
    /\ shown = [k \in Keys |-> NoSkill]
    /\ pending = [r \in Repos |-> [waiting |-> FALSE, names |-> { }]]
    /\ lastOp = NoOp
    /\ rules = NoRulesFile
    /\ syncedSkillsCache = NoSynced
    /\ job = NoJob

----------------------------------------------------------------------------
(* Inputs of the host resolver *)

\* How many fragments an application name is made of, at most
MaxHintParts == 2

HintFragments ==
    { << "C", "u", "r", "s", "o", "r" >>,
      << "W", "I", "N", "D", "S", "U", "R", "F" >>,
      << "T", "r", "a", "e" >>,
      << "a", "n", "t", "i", "G", "r", "a", "v", "i", "t", "y" >>,
      << "C", "o", "d", "e" >>,
      << "t", "r", "a" >>,
      << "e" >>,
      << " " >> }

RECURSIVE HintsOf(_)
HintsOf(n) ==
    IF n = 0 THEN { << >> }
    ELSE HintsOf(n - 1) \cup { h \o f : h \in HintsOf(n - 1), f \in HintFragments }

Hints == HintsOf(MaxHintParts)

Overrides ==
    { Undefined, << >>, CURSOR, << "C", "U", "R", "S", "O", "R" >>,
      << "T", "r", "a", "e" >>, VSCODE, ANTIGRAVITY,
      << "c", "o", "d", "e" >>, << "c", "u", "r", "s", "o", "r", " " >> }

ProgNames == { Undefined, << "W", "i", "n", "d", "s", "u", "r", "f" >> }

NoCall == [op |-> "none"]

\* The application name is any hint; the environment may repeat it in
\* VSCODE_ENV_APPNAME or leave that variable unset.
IdeInit ==
    /\ appName \in Hints
    /\ env \in [OPENSKILLS_IDE : Overrides,
                VSCODE_ENV_APPNAME : {Undefined, appName},
                PROG_IDE_NAME : ProgNames]
    /\ ideOut = NoCall
    /\ dirFs = EmptyDir
    /\ fpOp = NoCall
    /\ ProviderIdle

CallDetectIde ==
    /\ ideOut = NoCall
    /\ ideOut' = [op |-> "detectIde", result |-> detectIde(env)]
    /\ UNCHANGED <<env, appName, hashVars, provVars, syncVars, cmdVars>>

CallResolveIdeType ==
    /\ ideOut = NoCall
    /\ ideOut' = [op |-> "resolveIdeType", arg |-> appName,
                  result |-> resolveIdeType(appName)]
    /\ UNCHANGED <<env, appName, hashVars, provVars, syncVars, cmdVars>>

\* Arguments of a direct lookup: an id, the application name, or the
\* override string as it was typed
CallGetIdeConfig ==
    /\ ideOut = NoCall
    /\ \E a \in IdeType \cup {appName} \cup ({env.OPENSKILLS_IDE} \ {Undefined}) :
           ideOut' = [op |-> "getIdeConfig", arg |-> a, result |-> getIdeConfig(a)]
    /\ UNCHANGED <<env, appName, hashVars, provVars, syncVars, cmdVars>>

IdeNext == CallDetectIde \/ CallResolveIdeType \/ CallGetIdeConfig

SpecIde == IdeInit /\ [][IdeNext]_vars

----------------------------------------------------------------------------
(* Operations on one skill directory and its fingerprint *)

\* How deep the tree goes and how many nodes it holds, at most
MaxDepth == 2

MaxNodes == 3

RECURSIVE PathsOf(_)
PathsOf(n) ==
    IF n = 0 THEN { }
    ELSE { << x >> : x \in Names }
         \cup { << x >> \o q : x \in Names, q \in PathsOf(n - 1) }

Paths == PathsOf(MaxDepth)

\* Some component of the path is hidden (starts with a dot)
HiddenPath(path) == \E i \in 1..Len(path) : path[i][1] = "."

SiblingPath(path, name) == SubSeq(path, 1, Len(path) - 1) \o << name >>

\* The fingerprints computeDirectoryHash can return for a directory,
\* whatever order the filesystem enumerates it in
Fingerprints(dir) == { computeDirectoryHash(l) : l \in Listings(dir) }

HashInit ==
    /\ env = [OPENSKILLS_IDE |-> Undefined, VSCODE_ENV_APPNAME |-> Undefined,
              PROG_IDE_NAME |-> Undefined]
    /\ appName = << >>
    /\ ideOut = NoCall
    /\ dirFs = [EmptyDir EXCEPT ![SKILLMD] = File(<< "x" >>)]
    /\ fpOp = NoCall
    /\ ProviderIdle

\* What an operation on the directory records: the operation, the entry it
\* acted on and the directory as it was before
Recorded(op, path, node, dir) ==
    fpOp' = [op |-> op, path |-> path, kind |-> node.kind, prev |-> dir]

\* create a file, a symbolic link or a directory
AddEntry ==
    /\ NodeCount(dirFs) < MaxNodes
    /\ \E path \in Paths :
           /\ NodeAt(dirFs, path).kind = "none"
           /\ ParentIsDir(dirFs, path)
           /\ \E node \in { File(c) : c \in Contents } \cup { Link(t) : t \in Targets }
                           \cup (IF Len(path) < MaxDepth THEN { Dir(EmptyDir) } ELSE { }) :
                  /\ dirFs' = WithNode(dirFs, path, node)
                  /\ Recorded("add", path, node, dirFs)
    /\ UNCHANGED <<ideVars, provVars, syncVars, cmdVars>>

\* overwrite the bytes of a regular file with other bytes
WriteFile ==
    \E path \in Paths, c \in Contents :
        /\ NodeAt(dirFs, path).kind = "file"
        /\ NodeAt(dirFs, path).data # c
        /\ dirFs' = WithNode(dirFs, path, File(c))
        /\ Recorded("write", path, File(c), dirFs)
        /\ UNCHANGED <<ideVars, provVars, syncVars, cmdVars>>

\* unlink a file or a symbolic link
RemoveEntry ==
    \E path \in Paths :
        /\ NodeAt(dirFs, path).kind \in {"file", "link"}
        /\ dirFs' = WithNode(dirFs, path, None)
        /\ Recorded("remove", path, NodeAt(dirFs, path), dirFs)
        /\ UNCHANGED <<ideVars, provVars, syncVars, cmdVars>>

\* rename a file or a symbolic link within its directory
RenameEntry ==
    \E path \in Paths, name \in Names :
        /\ NodeAt(dirFs, path).kind \in {"file", "link"}
        /\ NodeAt(dirFs, SiblingPath(path, name)).kind = "none"
        /\ dirFs' = WithNode(WithNode(dirFs, path, None), SiblingPath(path, name),
                             NodeAt(dirFs, path))
        /\ Recorded("rename", path, NodeAt(dirFs, path), dirFs)
        /\ UNCHANGED <<ideVars, provVars, syncVars, cmdVars>>

\* replace a regular file by a symbolic link of the same name
ReplaceWithLink ==
    \E path \in Paths, t \in Targets :
        /\ NodeAt(dirFs, path).kind = "file"
        /\ dirFs' = WithNode(dirFs, path, Link(t))
        /\ Recorded("relink", path, Link(t), dirFs)
        /\ UNCHANGED <<ideVars, provVars, syncVars, cmdVars>>

\* computeDirectoryHash(dirPath), the filesystem choosing the enumeration
\* order at every depth
CallComputeDirectoryHash ==
    \E l \in Listings(dirFs) :
        /\ fpOp' = [op |-> "hash", listing |-> l, after |-> computeDirectoryHash(l)]
        /\ UNCHANGED <<dirFs, ideVars, provVars, syncVars, cmdVars>>

HashNext ==
    \/ AddEntry \/ WriteFile \/ RemoveEntry \/ RenameEntry \/ ReplaceWithLink
    \/ CallComputeDirectoryHash

SpecHash == HashInit /\ [][HashNext]_vars

----------------------------------------------------------------------------
(* The tree provider and the commands *)

\* the application names and overrides the extension is started with
AppNames == { << "C", "o", "d", "e" >>, << "C", "u", "r", "s", "o", "r" >> }

Envs ==
    [OPENSKILLS_IDE : { Undefined, CURSOR },
     VSCODE_ENV_APPNAME : { Undefined },
     PROG_IDE_NAME : { Undefined }]

\* the directory of each start, resolved once: the one the index is built
\* from and the one the commands write into
InstalledSkillsDirs == [a \in AppNames |-> getInstalledSkillsDir(a)]

TargetBases == [h \in Envs \X AppNames |-> targetBase(h[1], h[2])]

IndexDir == InstalledSkillsDirs[appName]

TargetDir == TargetBases[<< env, appName >>]

\* the extension as activated: the initial refresh() of a project without
\* installed skills leaves the index and the cache empty
Init ==
    /\ appName \in AppNames
    /\ env \in Envs
    /\ (appName = << "C", "o", "d", "e" >>) <=> (env.OPENSKILLS_IDE = CURSOR)
    /\ ideOut = NoCall
    /\ dirFs = EmptyDir
    /\ fpOp = NoCall
    /\ fs = [p \in SkillPaths |->
                IF p[1] = "repo" THEN SkillDir(TreeX, 0)
                ELSE IF p = DirPath(HOME_AGENT_SKILLS, ALPHA) THEN SkillDir(TreeY, 0)
                ELSE Absent]
    /\ hashCache = clearHashCache
    /\ installedSkillHashes = EmptyIndex
    /\ checkedSkills = { }
    /\ skillCache = [k \in Keys |-> NoSkill]
    /\ shown = [k \in Keys |-> NoSkill]
    /\ pending = [r \in Repos |-> [waiting |-> FALSE, names |-> { }]]
    /\ lastOp = NoOp
    /\ rules = NoRulesFile
    /\ syncedSkillsCache = NoSynced
    /\ job = NoJob

\* getSkillDirectories that lists the directories of the home directory
\* first
getSkillDirectoriesGlobalFirst ==
    << [path |-> HOME_AGENT_SKILLS, isProject |-> FALSE],
       [path |-> "~/.codex/skills", isProject |-> FALSE],
       [path |-> "~/.claude/skills", isProject |-> FALSE],
       [path |-> AGENT_SKILLS, isProject |-> TRUE],
       [path |-> CURSOR_SKILLS, isProject |-> TRUE],
       [path |-> TRAE_SKILLS, isProject |-> TRUE],
       [path |-> WINDSURF_SKILLS, isProject |-> TRUE] >>

\* utils/skills: getSkillDirectories(workspaceRoot)
getSkillDirectories ==
    << [path |-> AGENT_SKILLS, isProject |-> TRUE],
       [path |-> CURSOR_SKILLS, isProject |-> TRUE],
       [path |-> TRAE_SKILLS, isProject |-> TRUE],
       [path |-> WINDSURF_SKILLS, isProject |-> TRUE],
       [path |-> HOME_AGENT_SKILLS, isProject |-> FALSE],
       [path |-> "~/.codex/skills", isProject |-> FALSE],
       [path |-> "~/.claude/skills", isProject |-> FALSE] >>

\* workspace roots, and os.homedir()
WorkspaceRoots == { "/w1", "/w2" }
HomeDir == "~"

\* getSkillDirectories(workspaceRoot) with the paths in full: each directory
\* joined to the workspace root or to the home directory
getSkillDirectoriesOf(workspaceRoot) ==
    [i \in DOMAIN getSkillDirectories |->
        [base |-> IF getSkillDirectories[i].isProject THEN workspaceRoot ELSE HomeDir,
         path |-> getSkillDirectories[i].path,
         isProject |-> getSkillDirectories[i].isProject]]

\* utils/skills: getSearchDirs(workspaceRoot)
getSearchDirs == [i \in DOMAIN getSkillDirectories |-> getSkillDirectories[i].path]

\* dir.startsWith(workspaceRoot), the home directory lying outside the
\* workspace: true of the directories joined to workspaceRoot
isProjectLocal(dir) ==
    \E i \in DOMAIN getSkillDirectories :
        getSkillDirectories[i].path = dir /\ getSkillDirectories[i].isProject

\* fs.readdirSync(dir, { withFileTypes: true }): the entries the directory
\* holds, in the order the filesystem gives, taken from an order of all names
readdirSync(f, dir, order) ==
    SelectSeq(order, LAMBDA n : existsSync(f, DirPath(dir, n)))

\* the orders in which readdirSync can give the names
EntryOrders == Perms(EntryNames)

\* utils/skills: isDirectoryOrSymlinkToDirectory(entry, parentDir); statSync
\* follows the link
isDirectoryOrSymlinkToDirectory(f, p) ==
    IF isDirectory(f, p) THEN TRUE
    ELSE IF isSymbolicLink(f, p) THEN f[p].dirent = "link"
    ELSE FALSE

InstalledSkill(name, dir) ==
    [name |-> name, location |-> IF isProjectLocal(dir) THEN "project" ELSE "global",
     path |-> DirPath(dir, name)]

\* findAllInstalledSkills that has no `seen` set
findAllInstalledSkillsUnseen(f, order) ==
    LET RECURSIVE Entries(_, _, _)
        Entries(dir, entries, skills) ==
            IF entries = << >> THEN skills
            ELSE LET name == Head(entries)
                     p == DirPath(dir, name)
                 IN  IF ~isDirectoryOrSymlinkToDirectory(f, p)
                     THEN Entries(dir, Tail(entries), skills)
                     ELSE IF ~hasSkillMd(f, p) THEN Entries(dir, Tail(entries), skills)
                     ELSE IF ~readableSkillMd(f, p) THEN skills
                     ELSE Entries(dir, Tail(entries), Append(skills, InstalledSkill(name, dir)))
        RECURSIVE Dirs(_, _)
        Dirs(i, skills) ==
            IF i > Len(getSearchDirs) THEN skills
            ELSE Dirs(i + 1, Entries(getSearchDirs[i],
                                     readdirSync(f, getSearchDirs[i], order), skills))
    IN  Dirs(1, << >>)

\* utils/skills: findAllInstalledSkills(workspaceRoot), readdirSync giving
\* the entries of each directory in `order`.  readFileSync throwing leaves
\* the loop over the entries of the directory for the catch around it, and
\* the scan goes on with the next directory.
findAllInstalledSkills(f, order) ==
    LET Seen(skills) == { skills[k].name : k \in DOMAIN skills }
        RECURSIVE Entries(_, _, _)
        Entries(dir, entries, skills) ==
            IF entries = << >> THEN skills
            ELSE LET name == Head(entries)
                     p == DirPath(dir, name)
                 IN  IF ~isDirectoryOrSymlinkToDirectory(f, p)
                     THEN Entries(dir, Tail(entries), skills)
                     ELSE IF name \in Seen(skills) THEN Entries(dir, Tail(entries), skills)
                     ELSE IF ~hasSkillMd(f, p) THEN Entries(dir, Tail(entries), skills)
                     ELSE IF ~readableSkillMd(f, p) THEN skills
                     ELSE Entries(dir, Tail(entries), Append(skills, InstalledSkill(name, dir)))
        RECURSIVE Dirs(_, _)
        Dirs(i, skills) ==
            IF i > Len(getSearchDirs) THEN skills
            ELSE Dirs(i + 1, Entries(getSearchDirs[i],
                                     readdirSync(f, getSearchDirs[i], order), skills))
    IN  Dirs(1, << >>)

\* getLocalSkillsFromGroup(group), readdirSync giving the entries in
\* `order`; readFileSync throwing ends the loop with the skills found so far
getLocalSkillsFromGroup(f, group, order) ==
    LET RECURSIVE Entries(_, _)
        Entries(entries, skills) ==
            IF entries = << >> THEN skills
            ELSE LET name == Head(entries)
                     skillPath == DirPath(group.path, name)
                 IN  IF ~(isDirectory(f, skillPath) /\ ~startsWith(name, << "." >>))
                     THEN Entries(Tail(entries), skills)
                     ELSE IF ~hasSkillMd(f, skillPath) THEN Entries(Tail(entries), skills)
                     ELSE IF ~readableSkillMd(f, skillPath) THEN skills
                     ELSE Entries(Tail(entries),
                                  Append(skills, [name |-> name, path |-> skillPath,
                                                  groupPath |-> group.path,
                                                  isProject |-> group.isProject]))
    IN  Entries(readdirSync(f, group.path, order), << >>)

\* getLocalSkillsFromGroup over the groups: the LocalSkill nodes of the tree
LocalSkills(f) ==
    UNION { LET skills == getLocalSkillsFromGroup(f, getSkillDirectories[i], SkillNameSeq)
            IN  { skills[k] : k \in DOMAIN skills }
            : i \in DOMAIN getSkillDirectories }

\* the state refresh() leaves: index and cache rebuilt
Refreshed ==
    LET r == refresh(hashCache, fs', IndexDir)
    IN  /\ installedSkillHashes' = r.index
        /\ hashCache' = [p \in DOMAIN hashCache |->
                            IF p \in DOMAIN r.cache THEN r.cache[p] ELSE NoEntry]

\* what a command knows of a skill it copies: the status getSkillMatchStatus
\* gives it at that moment
CopyOf(skill) ==
    [name |-> skill.name, shownStatus |-> skill.matchStatus,
     status |-> getSkillMatchStatus(installedSkillHashes, hashCache, fs, skill).status]

\* fs.mkdirSync of the target, the copy of the files still to come
CopiedToDirectoryOnly(f, src, targetDir) ==
    [f EXCEPT ![targetDir] =
        IF f[targetDir].exists THEN f[targetDir] ELSE SkillDir(EmptyDir, 0)]

\* fs.mkdirSync + copyRecursiveSync(src, targetDir)
CopiedTo(f, src, targetDir) ==
    LET merged == copyRecursiveSync(f[src].tree, f[targetDir].tree)
        entriesOf(t) == { n \in Names : t[n].kind # "none" }
    IN  [f EXCEPT ![targetDir] =
            SkillDir(merged,
                     IF ~f[targetDir].exists THEN 0
                     ELSE IF entriesOf(merged) = entriesOf(f[targetDir].tree)
                          THEN f[targetDir].mtime
                          ELSE Touched(f[targetDir].mtime))]

\* agentskills.refresh
Refresh ==
    /\ UNCHANGED fs
    /\ Refreshed
    /\ lastOp' = [op |-> "refresh",
                  edited |-> IF lastOp.op = "edit" THEN lastOp ELSE NoOp]
    /\ UNCHANGED <<checkedSkills, skillCache, shown, pending>>
    /\ UNCHANGED <<ideVars, hashVars, syncVars, cmdVars>>

\* onDidChangeCheckboxState -> setChecked(skill, checked); getTreeItem gives
\* no checkbox to a skill whose matchStatus is Conflict
SetChecked ==
    /\ \E k \in DOMAIN shown, checked \in BOOLEAN :
           /\ shown[k] # NoSkill
           /\ shown[k].matchStatus # Conflict
           /\ (k \in checkedSkills) # checked
           /\ IF checked
              THEN /\ checkedSkills' = checkedSkills \cup { k }
                   /\ skillCache' = [skillCache EXCEPT ![k] = shown[k]]
              ELSE /\ checkedSkills' = checkedSkills \ { k }
                   /\ UNCHANGED skillCache
    /\ UNCHANGED <<fs, hashCache, installedSkillHashes, shown, pending, lastOp>>
    /\ UNCHANGED <<ideVars, hashVars, syncVars, cmdVars>>

\* GitService.getSkillsFromRepo(url, branch): the names of the directories of
\* the working tree that hold a SKILL.md
getSkillsFromRepo(f, r) == { n \in SkillNames : hasSkillMd(f, RepoPath(r, n)) }

\* getChildren(repo) up to its await: the index is built if it is empty, and
\* GitService.getSkillsFromRepo scans the working tree
ExpandStart ==
    \E r \in DOMAIN pending :
        /\ ~pending[r].waiting
        /\ IF IndexSize(installedSkillHashes) = 0
           THEN LET u == updateInstalledSkillHashes(hashCache, fs, IndexDir)
                IN  /\ installedSkillHashes' = u.index
                    /\ hashCache' = u.cache
           ELSE UNCHANGED <<installedSkillHashes, hashCache>>
        /\ pending' = [pending EXCEPT ![r] =
               [waiting |-> TRUE, names |-> getSkillsFromRepo(fs, r)]]
        /\ lastOp' = [op |-> "expanding", repo |-> r]
        /\ UNCHANGED <<fs, checkedSkills, skillCache, shown>>
        /\ UNCHANGED <<ideVars, hashVars, syncVars, cmdVars>>

\* the statuses getChildren(repo) gives the skills of a repository, one
\* after another, and the cache afterwards
Classified(r, names) ==
    LET RECURSIVE Loop(_, _, _)
        Loop(rest, out, c) ==
            IF rest = << >> THEN [skills |-> out, cache |-> c]
            ELSE LET s == getSkillMatchStatus(installedSkillHashes, c, fs,
                                              Skill(r, Head(rest), ""))
                 IN  Loop(Tail(rest),
                          out \cup { Skill(r, Head(rest), s.status) }, s.cache)
    IN  Loop(SeqOf(names), { }, hashCache)

\* getChildren(repo) after its await; recorded with the cache its calls of
\* getCachedDirectoryHash found
ExpandFinish ==
    \E r \in DOMAIN pending :
        /\ pending[r].waiting
        /\ LET c == Classified(r, pending[r].names)
               node(k) == CHOOSE s \in c.skills : s.name = k[2]
           IN  /\ hashCache' = c.cache
               /\ shown' = [k \in DOMAIN shown |->
                      IF k[1] # r THEN shown[k]
                      ELSE IF k[2] \in pending[r].names THEN node(k) ELSE NoSkill]
               /\ skillCache' = [k \in DOMAIN skillCache |->
                      IF k[1] = r /\ k[2] \in pending[r].names
                      THEN node(k) ELSE skillCache[k]]
        /\ lastOp' = [op |-> "expand", repo |-> r, names |-> pending[r].names,
                      before |-> hashCache,
                      failedBefore |-> IF lastOp.op = "expandFailed" /\ lastOp.repo # r
                                       THEN { lastOp.repo } ELSE { }]
        /\ pending' = [pending EXCEPT ![r] = [waiting |-> FALSE, names |-> { }]]
        /\ UNCHANGED <<fs, installedSkillHashes, checkedSkills>>
        /\ UNCHANGED <<ideVars, hashVars, syncVars, cmdVars>>

\* a failing getChildren(repo) that empties the tree under every repository
ExpandFailClearingAll ==
    \E r \in DOMAIN pending :
        /\ pending[r].waiting
        /\ shown' = [k \in DOMAIN shown |-> NoSkill]
        /\ pending' = [pending EXCEPT ![r] = [waiting |-> FALSE, names |-> { }]]
        /\ lastOp' = [op |-> "expandFailed", repo |-> r, errors |-> << r >>,
                      others |-> [k \in { j \in DOMAIN shown : j[1] # r } |-> shown[k]],
                      waiting |-> { o \in DOMAIN pending : pending[o].waiting } \ { r }]
        /\ UNCHANGED <<fs, hashCache, installedSkillHashes, checkedSkills, skillCache>>
        /\ UNCHANGED <<ideVars, hashVars, syncVars, cmdVars>>

\* getChildren(repo) when GitService.getSkillsFromRepo throws: one error
\* message that names the repository, and the repository shows no skills;
\* recorded with the skills the other repositories showed
ExpandFail ==
    \E r \in DOMAIN pending :
        /\ pending[r].waiting
        /\ shown' = [k \in DOMAIN shown |-> IF k[1] = r THEN NoSkill ELSE shown[k]]
        /\ pending' = [pending EXCEPT ![r] = [waiting |-> FALSE, names |-> { }]]
        /\ lastOp' = [op |-> "expandFailed", repo |-> r, errors |-> << r >>,
                      others |-> [k \in { j \in DOMAIN shown : j[1] # r } |-> shown[k]],
                      waiting |-> { o \in DOMAIN pending : pending[o].waiting } \ { r }]
        /\ UNCHANGED <<fs, hashCache, installedSkillHashes, checkedSkills, skillCache>>
        /\ UNCHANGED <<ideVars, hashVars, syncVars, cmdVars>>

\* getCheckedSkills()
getCheckedSkills == { skillCache[k] : k \in checkedSkills } \ { NoSkill }

\* the Skill nodes the tree view displays
ShownSkills == { shown[k] : k \in Keys } \ { NoSkill }

\* installSelected / deleteSelected: the checked skills, or the selection of
\* the tree view when nothing is checked
Selections ==
    IF getCheckedSkills # { } THEN { getCheckedSkills }
    ELSE SUBSET ShownSkills \ { { } }

\* the install loop: each selected skill whose source exists is copied
Installed(f, selected, base) ==
    LET RECURSIVE Loop(_, _)
        Loop(rest, g) ==
            IF rest = << >> THEN g
            ELSE LET skill == Head(rest)
                 IN  IF ~(Truthy(skill.localPath) /\ existsSync(g, skill.localPath))
                     THEN Loop(Tail(rest), g)
                     ELSE Loop(Tail(rest),
                               CopiedTo(g, skill.localPath, DirPath(base, skill.name)))
    IN  Loop(SeqOf(selected), f)

\* the delete loop: fs.rmSync of each target directory that exists
Removed(f, targets) == [p \in SkillPaths |-> IF p \in targets THEN Absent ELSE f[p]]

\* an install command: the copies, then skillsProvider.clearSelection()
Installing(op, selected) ==
    /\ fs' = Installed(fs, selected, TargetDir)
    /\ checkedSkills' = { }
    /\ Refreshed
    /\ lastOp' = [op |-> op,
                  copies |-> { CopyOf(s) : s \in
                                  { t \in selected : existsSync(fs, t.localPath) } }]
    /\ UNCHANGED <<skillCache, shown, pending>>
    /\ UNCHANGED <<ideVars, hashVars, syncVars, cmdVars>>

\* agentskills.installSelected
InstallSelected ==
    \E selected \in Selections :
        Installing("installSelected", selected)

\* the tree offers the inline install of a skill unless it shows as Conflict
InstallOffered(skill) == skill.matchStatus # Conflict

\* agentskills.installSkill
InstallSkill ==
    \E node \in ShownSkills :
        /\ InstallOffered(node)
        /\ Installing("installSkill", { node })

\* agentskills.installPersonalSkill, on a skill of a personal directory
InstallPersonalSkill ==
    \E node \in LocalSkills(fs) :
        /\ ~node.isProject
        /\ fs' = CopiedTo(fs, node.path,
                          DirPath(TargetDir, node.name))
        /\ checkedSkills' = { }
        /\ Refreshed
        /\ lastOp' = [op |-> "installPersonalSkill", copies |-> { }]
        /\ UNCHANGED <<skillCache, shown, pending>>
        /\ UNCHANGED <<ideVars, hashVars, syncVars, cmdVars>>

\* a delete command: the directories are removed, then refresh()
Deleting(op, targets) ==
    /\ fs' = Removed(fs, { p \in targets : existsSync(fs, p) })
    /\ Refreshed
    /\ lastOp' = [op |-> op,
                  removed |-> { p \in targets : existsSync(fs, p) }]
    /\ UNCHANGED <<checkedSkills, skillCache, shown, pending>>
    /\ UNCHANGED <<ideVars, hashVars, syncVars, cmdVars>>

\* agentskills.deleteSelected, confirmed with Yes
DeleteSelected ==
    \E selected \in Selections :
        Deleting("deleteSelected",
                 { DirPath(TargetDir, s.name) : s \in selected })

\* agentskills.deleteSkill
DeleteSkill ==
    \E node \in ShownSkills :
        Deleting("deleteSkill", { DirPath(TargetDir, node.name) })

\* agentskills.deleteLocalSkill, on a skill of a project directory
DeleteLocalSkill ==
    \E node \in LocalSkills(fs) :
        /\ node.isProject
        /\ Deleting("deleteLocalSkill", { node.path })

\* agentskills.pullRepo: git changes the working tree, then refresh()
PullRepo ==
    \E r \in Repos, n \in SkillNames :
        \E node \in LET now == IF fs[RepoPath(r, n)].exists
                                THEN Touched(fs[RepoPath(r, n)].mtime) ELSE 0
                     IN  { Absent, SkillDir(TreeX, now), SkillDir(TreeY, now) } :
            /\ node # fs[RepoPath(r, n)]
            /\ fs' = [fs EXCEPT ![RepoPath(r, n)] = node]
            /\ Refreshed
            /\ lastOp' = [op |-> "pullRepo"]
            /\ UNCHANGED <<checkedSkills, skillCache, shown, pending>>
            /\ UNCHANGED <<ideVars, hashVars, syncVars, cmdVars>>

\* a skill directory of that name is installed: on disk, not hidden, with a
\* SKILL.md
InstalledIn(f, n) ==
    /\ isDirectory(f, DirPath(IndexDir, n))
    /\ n[1] # "."
    /\ hasSkillMd(f, DirPath(IndexDir, n))

InstalledOnDisk(n) == InstalledIn(fs, n)

\* the installed copy and the repository copy have equal fingerprints
SameOnDisk(r, n) ==
    /\ InstalledOnDisk(n)
    /\ existsSync(fs, RepoPath(r, n))
    /\ TreeHash(fs[DirPath(IndexDir, n)].tree) = TreeHash(fs[RepoPath(r, n)].tree)

\* another program writes other bytes into the SKILL.md of a skill
\* directory; the mtime of the directory changes or stays
EditSkillFile ==
    /\ \E p \in SkillPaths, bytes \in Contents, m \in Mtimes :
           /\ p[1] = "repo" \/ p[2] = IndexDir
           /\ fs[p].exists
           /\ fs[p].tree[SKILLMD] # File(bytes)
           /\ fs' = [fs EXCEPT ![p] =
                         SkillDir([fs[p].tree EXCEPT ![SKILLMD] = File(bytes)], m)]
           /\ lastOp' = [op |-> "edit", path |-> p,
                         touched |-> m # fs[p].mtime,
                         matched |->
                             /\ p[1] = "repo"
                             /\ SameOnDisk(p[2], p[3])
                             /\ getSkillMatchStatus(installedSkillHashes, hashCache, fs,
                                    Skill(p[2], p[3], "")).status = Matched]
    /\ UNCHANGED <<hashCache, installedSkillHashes, checkedSkills, skillCache, shown,
                   pending>>
    /\ UNCHANGED <<ideVars, hashVars, syncVars, cmdVars>>

Next ==
    \/ Refresh
    \/ SetChecked
    \/ ExpandStart
    \/ ExpandFinish
    \/ ExpandFail
    \/ InstallSelected
    \/ InstallSkill
    \/ InstallPersonalSkill
    \/ DeleteSelected
    \/ DeleteSkill
    \/ DeleteLocalSkill
    \/ PullRepo
    \/ EditSkillFile

Spec == Init /\ [][Next]_vars

----------------------------------------------------------------------------
(* The tree provider and the commands: properties *)

\* the index as the directory it is built from gives it, on disk f
IndexOf(f) ==
    [n \in EntryNames |->
        IF InstalledIn(f, n) THEN TreeHash(f[DirPath(IndexDir, n)].tree)
        ELSE Undefined]

DiskIndex == IndexOf(fs)

\* no cache entry of a directory that still has the mtime of the entry holds
\* another hash than the directory has
CacheFresh ==
    \A p \in SkillPaths :
        (hashCache[p].cached /\ fs[p].exists /\ hashCache[p].mtime = fs[p].mtime)
            => hashCache[p].hash = TreeHash(fs[p].tree)

\* the status the tree provider gives a skill of a repository now
StatusNow(r, n) ==
    getSkillMatchStatus(installedSkillHashes, hashCache, fs, Skill(r, n, "")).status

\* the fingerprint operation of the provider on a directory
FingerprintNow(p) == getCachedDirectoryHash(hashCache, fs, p).hash

C1_MatchedWitness ==
    \E k \in Keys :
        /\ shown[k] # NoSkill
        /\ shown[k].matchStatus = Matched
        /\ StatusNow(k[1], k[2]) = Matched
        /\ SameOnDisk(k[1], k[2])

InstallOps == { "installSelected", "installSkill", "installPersonalSkill" }

DeleteOps == { "deleteSelected", "deleteSkill", "deleteLocalSkill" }

\* C2: no install command copies a skill of a repository into the project
\* skills directory while the status of that skill is Conflict.
C2_NoInstallOverConflict ==
    lastOp.op \in InstallOps => \A c \in lastOp.copies : c.status # Conflict

\* the stronger case: the copied skill was displayed as Conflict by the tree
\* when the command copied it
C2_NoInstallOfShownConflict ==
    lastOp.op \in InstallOps =>
        \A c \in lastOp.copies : ~(c.status = Conflict /\ c.shownStatus = Conflict)

\* C3: the directory an install command writes into is the directory the
\* index is built from, and a skill that was NotInstalled and has been copied
\* by an install command is Matched once the refresh of the command has run.
C3_InstallDirIsIndexDir ==
    (lastOp.op \in InstallOps /\ lastOp.copies # { }) =>
        /\ TargetDir = IndexDir
        /\ \A c \in lastOp.copies, r \in Repos :
               (c.status = NotInstalled /\ existsSync(fs, RepoPath(r, c.name))) =>
                   StatusNow(r, c.name) = Matched

\* a refresh() has run after another program changed the SKILL.md of the
\* repository copy of a skill that was Matched, the installed directory and
\* the repository copy having equal fingerprints
RefreshedAfterEditOfMatched ==
    /\ lastOp.op = "refresh"
    /\ lastOp.edited.op = "edit"
    /\ lastOp.edited.matched

\* C4: when a skill is Matched and the bytes of a non-hidden file of its
\* repository copy are then changed, the skill is Conflict after refresh(),
\* whether the mtime of the directory changed or not.
C4_EditedRepoCopyConflicts ==
    RefreshedAfterEditOfMatched =>
        StatusNow(lastOp.edited.path[2], lastOp.edited.path[3]) = Conflict

\* the case of C4 with the mtime of the directory unchanged
C4_Witness ==
    /\ RefreshedAfterEditOfMatched
    /\ ~lastOp.edited.touched
    /\ StatusNow(lastOp.edited.path[2], lastOp.edited.path[3]) = Conflict

\* the cache refresh() leaves on disk f: emptied, then holding the installed
\* directories the index was rebuilt from, as they are on disk
CacheOf(f) ==
    [p \in SkillPaths |->
        IF p[1] = "dir" /\ p[2] = IndexDir /\ InstalledIn(f, p[3])
        THEN CacheEntry(TreeHash(f[p].tree), f[p].mtime)
        ELSE NoEntry]

DiskCache == CacheOf(fs)

\* a step of one of the six install and delete commands, or of the refresh
\* command
CommandStep ==
    /\ UNCHANGED <<pending, shown, skillCache>>
    /\ \/ lastOp'.op \in InstallOps
          /\ (InstallSelected \/ InstallSkill \/ InstallPersonalSkill)
       \/ lastOp'.op \in DeleteOps
          /\ (DeleteSelected \/ DeleteSkill \/ DeleteLocalSkill)
       \/ lastOp'.op = "refresh" /\ Refresh

C12_CacheHitBySameMtime ==
    /\ lastOp.op = "expand" =>
           \A n \in lastOp.names :
               LET p == RepoPath(lastOp.repo, n)
                   before == lastOp.before
                   returned == IF CacheHit(before, fs, p) THEN before[p].hash
                               ELSE TreeHash(fs[p].tree)
               IN  (Truthy(installedSkillHashes[n]) /\ existsSync(fs, p)) =>
                       /\ hashCache[p] = IF CacheHit(before, fs, p) THEN before[p]
                                         ELSE CacheEntry(TreeHash(fs[p].tree), fs[p].mtime)
                       /\ shown[<<lastOp.repo, n>>].matchStatus =
                              IF installedSkillHashes[n] = returned THEN Matched
                              ELSE Conflict
    /\ lastOp.op = "refresh" =>
           \A n \in SkillNames :
               LET p == DirPath(IndexDir, n)
               IN  InstalledOnDisk(n) =>
                       hashCache[p] = CacheEntry(TreeHash(fs[p].tree), fs[p].mtime)

\* C12 witness: an expansion found an entry with the current mtime whose
\* stored fingerprint is not the one the directory has now, and returned
\* the stored one
C12_Witness ==
    /\ lastOp.op = "expand"
    /\ \E n \in lastOp.names :
           LET p == RepoPath(lastOp.repo, n)
           IN  /\ Truthy(installedSkillHashes[n])
               /\ existsSync(fs, p)
               /\ CacheHit(lastOp.before, fs, p)
               /\ lastOp.before[p].hash # TreeHash(fs[p].tree)
               /\ hashCache[p] = lastOp.before[p]

\* An expansion found an entry with another mtime and stored a new one
C12_MissWitness ==
    /\ lastOp.op = "expand"
    /\ \E n \in lastOp.names :
           LET p == RepoPath(lastOp.repo, n)
           IN  /\ Truthy(installedSkillHashes[n])
               /\ existsSync(fs, p)
               /\ lastOp.before[p].cached
               /\ lastOp.before[p].mtime # fs[p].mtime
               /\ hashCache[p] = CacheEntry(TreeHash(fs[p].tree), fs[p].mtime)

\* A refresh recomputed the fingerprint of an installed directory that had
\* been rewritten without a change of its mtime
C12_ClearedWitness ==
    /\ lastOp.op = "refresh"
    /\ lastOp.edited.op = "edit"
    /\ ~lastOp.edited.touched
    /\ lastOp.edited.path[1] = "dir"
    /\ InstalledOnDisk(lastOp.edited.path[3])
    /\ hashCache[lastOp.edited.path] =
           CacheEntry(TreeHash(fs[lastOp.edited.path].tree), fs[lastOp.edited.path].mtime)

----------------------------------------------------------------------------
(* Scanning the skills directories *)

\* how many entries the skills directories hold together
MaxEntries == 3

\* the skills directories that hold entries: one of the project, one of the
\* home directory
ScannedDirs == { CURSOR_SKILLS, HOME_AGENT_SKILLS }

ScannedPaths == { DirPath(d, n) : d \in ScannedDirs, n \in EntryNames }

\* what an entry of a skills directory can be: a folder with a SKILL.md
\* file, without one, or with a SKILL.md that is a directory; a symbolic
\* link to a folder with SKILL.md; a regular file; a link to a regular file
ScannedNodes ==
    { SkillDir(TreeX, 0), SkillDir(EmptyDir, 0), SkillDir(TreeD, 0), LinkedDir(TreeX),
      PlainFile, LinkedFile }

\* the extension in Cursor, on a project and a home directory without skills
ScanInit ==
    /\ env = [OPENSKILLS_IDE |-> Undefined, VSCODE_ENV_APPNAME |-> Undefined,
              PROG_IDE_NAME |-> Undefined]
    /\ appName = << "C", "u", "r", "s", "o", "r" >>
    /\ ideOut = NoCall
    /\ dirFs = EmptyDir
    /\ fpOp = NoCall
    /\ ProviderIdle

\* another program creates, replaces or removes an entry of a skills
\* directory
ScanDiskChange ==
    /\ \E p \in ScannedPaths, node \in ScannedNodes \cup { Absent } :
           /\ node # fs[p]
           /\ fs' = [fs EXCEPT ![p] = node]
           /\ Cardinality({ q \in ScannedPaths : fs'[q].exists }) <= MaxEntries
    /\ lastOp' = [op |-> "scanDisk"]
    /\ UNCHANGED <<hashCache, installedSkillHashes, checkedSkills, skillCache, shown,
                   pending>>
    /\ UNCHANGED <<ideVars, hashVars, syncVars, cmdVars>>

\* findAllInstalledSkills(workspaceRoot), as syncToAgentsMd calls it
CallFindAllInstalledSkills ==
    /\ \E order \in EntryOrders :
           lastOp' = [op |-> "findAll", order |-> order,
                      skills |-> findAllInstalledSkills(fs, order)]
    /\ UNCHANGED <<fs, hashCache, installedSkillHashes, checkedSkills, skillCache, shown,
                   pending>>
    /\ UNCHANGED <<ideVars, hashVars, syncVars, cmdVars>>

\* refresh(): the installed-hash index is rebuilt
ScanRefresh ==
    /\ LET r == refresh(hashCache, fs, IndexDir)
       IN  /\ installedSkillHashes' = r.index
           /\ hashCache' = r.cache
    /\ lastOp' = [op |-> "scanIndex"]
    /\ UNCHANGED <<fs, checkedSkills, skillCache, shown, pending>>
    /\ UNCHANGED <<ideVars, hashVars, syncVars, cmdVars>>

\* getChildren(group) of a local skills group
GetChildrenOfGroup ==
    /\ \E i \in DOMAIN getSkillDirectories, order \in EntryOrders :
           /\ getSkillDirectories[i].path \in ScannedDirs
           /\ lastOp' = [op |-> "localGroup", order |-> order,
                         group |-> getSkillDirectories[i],
                         skills |-> getLocalSkillsFromGroup(fs, getSkillDirectories[i],
                                                            order)]
    /\ UNCHANGED <<fs, hashCache, installedSkillHashes, checkedSkills, skillCache, shown,
                   pending>>
    /\ UNCHANGED <<ideVars, hashVars, syncVars, cmdVars>>

ScanNext ==
    ScanDiskChange \/ CallFindAllInstalledSkills \/ ScanRefresh \/ GetChildrenOfGroup

SpecScan == ScanInit /\ [][ScanNext]_vars

\* the names of a sequence of skills
NamesOf(skills) == { skills[k].name : k \in DOMAIN skills }

\* a skill of that name exists in the directory: a folder, or a link to a
\* folder, that contains a SKILL.md file
SkillAt(f, dir, n) ==
    isDirectoryOrSymlinkToDirectory(f, DirPath(dir, n)) /\ readableSkillMd(f, DirPath(dir, n))

\* the first directory, in search-directory order, where a skill of that
\* name exists
FirstDirWith(f, n) ==
    getSearchDirs[CHOOSE i \in DOMAIN getSearchDirs :
                      /\ SkillAt(f, getSearchDirs[i], n)
                      /\ \A j \in 1..(i - 1) : ~SkillAt(f, getSearchDirs[j], n)]

\* findAllInstalledSkills returns no two entries of one name
NoDuplicateNames(skills) ==
    \A j, k \in DOMAIN skills : skills[j].name = skills[k].name => j = k

\* C14: findAllInstalledSkills returns no two entries with the same name,
\* and the entry for a name comes from the first directory, in
\* search-directory order, where a skill of that name (a folder containing
\* a SKILL.md file) exists: every name that has such a folder has an entry,
\* and its path is that folder.
C14_FirstDirectoryWins ==
    lastOp.op = "findAll" =>
        /\ NoDuplicateNames(lastOp.skills)
        /\ \A n \in EntryNames :
               IF \E d \in ScannedDirs : SkillAt(fs, d, n)
               THEN \E k \in DOMAIN lastOp.skills :
                        lastOp.skills[k] = InstalledSkill(n, FirstDirWith(fs, n))
               ELSE n \notin NamesOf(lastOp.skills)

\* What holds of every scan: no two entries have one name, and every entry
\* is a skill folder of its directory
C14_NoDuplicatesAndOnlySkills ==
    lastOp.op = "findAll" =>
        /\ NoDuplicateNames(lastOp.skills)
        /\ \A k \in DOMAIN lastOp.skills :
               SkillAt(fs, lastOp.skills[k].path[2], lastOp.skills[k].name)

Qualifies(f, dir, n) ==
    /\ isDirectoryOrSymlinkToDirectory(f, DirPath(dir, n))
    /\ ~startsWith(n, << "." >>)
    /\ hasSkillMd(f, DirPath(dir, n))

\* C16: an immediate child of an installed-skill directory is reported as a
\* skill iff it is a directory or a symbolic link whose target is a
\* directory, its name does not start with a dot, and it contains SKILL.md
\* at its top level, identically for findAllInstalledSkills, for the
\* installed-hash index and for the listing of a local group.
C16_SameSkillTest ==
    /\ lastOp.op = "findAll" =>
           \A n \in EntryNames :
               n \in NamesOf(lastOp.skills) <=> \E d \in ScannedDirs : Qualifies(fs, d, n)
    /\ lastOp.op = "scanIndex" =>
           \A n \in EntryNames :
               Truthy(installedSkillHashes[n]) <=> Qualifies(fs, IndexDir, n)
    /\ lastOp.op = "localGroup" =>
           \A n \in EntryNames :
               n \in NamesOf(lastOp.skills) <=> Qualifies(fs, lastOp.group.path, n)

\* A refresh left out of the index a symbolic link to a folder with
\* SKILL.md, which findAllInstalledSkills reports from the same disk
C16_LinkSkippedByIndex ==
    /\ lastOp.op = "scanIndex"
    /\ fs[DirPath(IndexDir, ALPHA)] = LinkedDir(TreeX)
    /\ ~Truthy(installedSkillHashes[ALPHA])
    /\ \A order \in EntryOrders :
           ALPHA \in NamesOf(findAllInstalledSkills(fs, order))
    /\ \A order \in EntryOrders, i \in DOMAIN getSkillDirectories :
           ALPHA \notin NamesOf(getLocalSkillsFromGroup(fs, getSkillDirectories[i], order))

\* findAllInstalledSkills reported a folder whose name starts with a dot,
\* which the index and the listing of the group leave out
C16_HiddenReported ==
    /\ lastOp.op = "findAll"
    /\ HiddenSkill \in NamesOf(lastOp.skills)
    /\ ~Truthy(updateInstalledSkillHashes(hashCache, fs, IndexDir).index[HiddenSkill])
    /\ \A order \in EntryOrders, i \in DOMAIN getSkillDirectories :
           HiddenSkill \notin
               NamesOf(getLocalSkillsFromGroup(fs, getSkillDirectories[i], order))

\* The three scans never disagree about a folder (not a link) with a
\* visible name and a SKILL.md file, nor about an entry without SKILL.md,
\* when no SKILL.md of the directory is unreadable
C16_AgreeOnPlainFolders ==
    \A order \in EntryOrders, i \in DOMAIN getSkillDirectories, n \in SkillNames :
        LET dir == getSkillDirectories[i].path
            p == DirPath(dir, n)
            found == { k \in DOMAIN findAllInstalledSkills(fs, order) :
                           findAllInstalledSkills(fs, order)[k].path = p }
            listed == n \in NamesOf(getLocalSkillsFromGroup(fs, getSkillDirectories[i], order))
            indexed == Truthy(updateInstalledSkillHashes(hashCache, fs, dir).index[n])
        IN  (/\ dir \in ScannedDirs
             /\ ~isSymbolicLink(fs, p)
             /\ \A m \in EntryNames : hasSkillMd(fs, DirPath(dir, m))
                                          => readableSkillMd(fs, DirPath(dir, m)))
            => /\ listed <=> Qualifies(fs, dir, n)
               /\ indexed <=> Qualifies(fs, dir, n)
               /\ found # { } => Qualifies(fs, dir, n)

----------------------------------------------------------------------------
(* Rules-file synchronizer: src/src/services/sync.ts *)

\* outputPath.endsWith('.md') || outputPath.endsWith('.mdc'), for the
\* rulesFile values of IDE_CONFIGS (path.join keeps the end of the path)
endsWithMarkdown(rulesFile) ==
    rulesFile \in { "AGENTS.md", ".agent/rules/openskills.md",
                    ".windsurf/rules/openskills.md", ".trae/rules/openskills.md",
                    ".cursor/rules/openskills.mdc" }

\* path.basename(outputPath)
basename(rulesFile) ==
    IF rulesFile = "AGENTS.md" THEN "AGENTS.md"
    ELSE IF rulesFile = ".cursor/rules/openskills.mdc" THEN "openskills.mdc"
    ELSE "openskills.md"

\* path.dirname(outputPath) is the workspace root itself, which exists
dirnameIsRoot(rulesFile) == rulesFile = "AGENTS.md"

\* config.initialContent as the lines of a new rules file
TemplateLines(config) == << Line("text", config.initialContent, << >>, "") >>

\* a line a user wrote into the rules file
UserText == Line("text", "notes", << >>, "")

StartMarker == Line("start", "", << >>, "")

EndMarker == Line("end", "", << >>, "")

\* the entry of a skill in the generated block: its name, and `global` or
\* the place of the skill in the project
SkillEntry(skill) ==
    Line("skill", "", skill.name,
         IF skill.location = "global" THEN "global" ELSE skill.path[2])

\* utils/agentsMd: generateSkillsXml(skills): the marker block with one
\* entry per skill, in the order of the skills
generateSkillsXml(skills) ==
    << StartMarker >> \o [k \in DOMAIN skills |-> SkillEntry(skills[k])] \o << EndMarker >>

\* the span of the first generated block of a content: the index of its
\* opening marker and of the closing marker that follows, or << >>
BlockSpan(content) ==
    LET starts == { i \in DOMAIN content : content[i].kind = "start" }
    IN  IF starts = { } THEN << >>
        ELSE LET i == CHOOSE i \in starts : \A k \in starts : i <= k
                 ends == { j \in DOMAIN content : j > i /\ content[j].kind = "end" }
             IN  IF ends = { } THEN << >>
                 ELSE << i, CHOOSE j \in ends : \A k \in ends : j <= k >>

\* replaceSkillsSection that appends the block whatever the content holds
replaceSkillsSectionAppending(content, xml) == content \o xml

\* utils/agentsMd: replaceSkillsSection(content, xml): the block generated
\* earlier is replaced in place, a content without one gets the block
\* appended; nothing else changes
replaceSkillsSection(content, xml) ==
    LET span == BlockSpan(content)
    IN  IF span = << >> THEN content \o xml
        ELSE SubSeq(content, 1, span[1] - 1) \o xml
             \o SubSeq(content, span[2] + 1, Len(content))

\* what a call of syncToAgentsMd ends with: the SyncResult returned, or an
\* exception thrown to the caller
Returned(success, message, count) ==
    [thrown |-> FALSE, success |-> success, message |-> message, count |-> count]

Thrown(message) == [thrown |-> TRUE, success |-> FALSE, message |-> message, count |-> 0]

\* the errors of the file system calls, by the call that fails
ErrorMessage(call) ==
    IF call = "mkdir" THEN "EACCES: permission denied, mkdir"
    ELSE IF call = "read" THEN "EACCES: permission denied, open"
    ELSE "ENOSPC: no space left on device, write"

\* syncToAgentsMd without its try/catch
syncToAgentsMdUncaught(f, order, file, ideName) ==
    LET config == getIdeConfig(IF Truthy(ideName) THEN ideName ELSE VSCODE).config
        skills == findAllInstalledSkills(f, order)
        made == [file EXCEPT !.dirExists = TRUE]
        content == IF made.exists THEN made.content ELSE TemplateLines(config)
        updated == replaceSkillsSection(content, generateSkillsXml(skills))
    IN  IF ~endsWithMarkdown(config.rulesFile)
        THEN [result |-> Returned(FALSE,
                            << "Output file must be a markdown file (.md or .mdc)" >>, 0),
              rules |-> file]
        ELSE IF Len(skills) = 0
        THEN [result |-> Returned(TRUE, << "No skills installed. Install skills first." >>, 0),
              rules |-> file]
        ELSE IF ~file.dirExists /\ file.fault = "mkdir"
        THEN [result |-> Thrown(<< ErrorMessage("mkdir") >>), rules |-> file]
        ELSE IF made.exists /\ made.fault = "read"
        THEN [result |-> Thrown(<< ErrorMessage("read") >>), rules |-> made]
        ELSE IF made.fault = "write"
        THEN [result |-> Thrown(<< ErrorMessage("write") >>), rules |-> made]
        ELSE [result |-> Returned(TRUE, << "Successfully synced skills to ",
                                           basename(config.rulesFile) >>, Len(skills)),
              rules |-> [made EXCEPT !.exists = TRUE, !.content = updated]]

\* syncToAgentsMd that reports an empty set of skills as a failure
syncToAgentsMdEmptyFails(f, order, file, ideName) ==
    LET r == syncToAgentsMdUncaught(f, order, file, ideName)
    IN  IF r.result.thrown
        THEN [r EXCEPT !.result = Returned(FALSE, << "Sync failed: " >> \o r.result.message, 0)]
        ELSE IF r.result.success /\ r.result.count = 0
        THEN [r EXCEPT !.result = Returned(FALSE, << "Sync failed: ", "no skills" >>, 0)]
        ELSE r

\* syncToAgentsMd(workspaceRoot, ideName) on the disk f, readdirSync giving
\* entries in `order`, with the rules file `file`: the result, and the rules
\* file afterwards.  Whatever is thrown between the validation and the write
\* is caught and becomes a SyncResult.
syncToAgentsMd(f, order, file, ideName) ==
    LET config == getIdeConfig(IF Truthy(ideName) THEN ideName ELSE VSCODE).config
        Failed(call, after) ==
            [result |-> Returned(FALSE, << "Sync failed: ", ErrorMessage(call) >>, 0),
             rules |-> after]
    IN  IF ~endsWithMarkdown(config.rulesFile)
        THEN [result |-> Returned(FALSE,
                            << "Output file must be a markdown file (.md or .mdc)" >>, 0),
              rules |-> file]
        ELSE LET skills == findAllInstalledSkills(f, order)
                 made == [file EXCEPT !.dirExists = TRUE]
             IN  IF Len(skills) = 0
                 THEN [result |-> Returned(TRUE,
                                     << "No skills installed. Install skills first." >>, 0),
                       rules |-> file]
                 ELSE IF ~file.dirExists /\ file.fault = "mkdir" THEN Failed("mkdir", file)
                 ELSE IF made.exists /\ made.fault = "read" THEN Failed("read", made)
                 ELSE LET content == IF made.exists THEN made.content
                                     ELSE TemplateLines(config)
                          xml == generateSkillsXml(skills)
                          updated == replaceSkillsSection(content, xml)
                      IN  IF made.fault = "write" THEN Failed("write", made)
                          ELSE [result |-> Returned(TRUE,
                                              << "Successfully synced skills to ",
                                                 basename(config.rulesFile) >>,
                                              Len(skills)),
                                rules |-> [made EXCEPT !.exists = TRUE,
                                                       !.content = updated]]

\* how many lines another program writes into the rules file
MaxUserLines == 2

\* the entries of the skills directories that come and go
SyncPaths ==
    { DirPath(CURSOR_SKILLS, ALPHA), DirPath(CURSOR_SKILLS, HiddenSkill),
      DirPath(HOME_AGENT_SKILLS, ALPHA) }

\* a skill folder, and a folder whose SKILL.md cannot be read
SyncNodes == { SkillDir(TreeX, 0), SkillDir(TreeD, 0) }

RulesFaults == { "none", "mkdir", "read", "write" }

\* the extension in one of the hosts, no skills installed, no rules file;
\* the directory of the rules file exists when it is the workspace root
SyncInit ==
    /\ env = [OPENSKILLS_IDE |-> Undefined, VSCODE_ENV_APPNAME |-> Undefined,
              PROG_IDE_NAME |-> Undefined]
    /\ appName \in AppNames
    /\ ideOut = NoCall
    /\ dirFs = EmptyDir
    /\ fpOp = NoCall
    /\ fs = [p \in SkillPaths |-> Absent]
    /\ hashCache = clearHashCache
    /\ installedSkillHashes = EmptyIndex
    /\ checkedSkills = { }
    /\ skillCache = [k \in Keys |-> NoSkill]
    /\ shown = [k \in Keys |-> NoSkill]
    /\ pending = [r \in Repos |-> [waiting |-> FALSE, names |-> { }]]
    /\ lastOp = NoOp
    /\ rules = RulesFile(dirnameIsRoot(getIdeConfig(appName).config.rulesFile),
                         FALSE, << >>, "none")
    /\ syncedSkillsCache = NoSynced
    /\ job = NoJob

\* a skill is installed or deleted (by a command or by another program)
SyncDiskChange ==
    /\ \E p \in SyncPaths, node \in SyncNodes \cup { Absent } :
           /\ node # fs[p]
           /\ fs' = [fs EXCEPT ![p] = node]
    /\ lastOp' = [op |-> "syncDisk"]
    /\ UNCHANGED <<hashCache, installedSkillHashes, checkedSkills, skillCache, shown,
                   pending>>
    /\ UNCHANGED <<ideVars, hashVars, syncVars, cmdVars>>

\* what another program can make of the rules file: it is deleted, with its
\* directory or not; it is rewritten by a user; a line is added at its end;
\* or the next mkdirSync, readFileSync or writeFileSync on it fails or works
RulesChanges ==
    { [rules EXCEPT !.fault = x] : x \in RulesFaults }
        \cup { RulesFile(d, FALSE, << >>, rules.fault) :
                   d \in { TRUE, dirnameIsRoot(getIdeConfig(appName).config.rulesFile) } }
        \cup { RulesFile(TRUE, TRUE, << UserText >>, rules.fault) }
        \cup { [rules EXCEPT !.content = @ \o << UserText >>] : x \in
                   { y \in { 1 } :
                       /\ rules.exists
                       /\ Cardinality({ i \in DOMAIN rules.content :
                                            rules.content[i] = UserText }) < MaxUserLines } }

RulesChange ==
    /\ \E file \in RulesChanges :
           /\ file # rules
           /\ rules' = file
    /\ lastOp' = [op |-> "rulesChange"]
    /\ UNCHANGED <<fs, hashCache, installedSkillHashes, checkedSkills, skillCache, shown,
                   pending, syncedSkillsCache>>
    /\ UNCHANGED <<ideVars, hashVars, cmdVars>>

\* agentskills.sync: syncToAgentsMd(workspaceRoot, vscode.env.appName),
\* recorded with the rules file it found and whether it repeats the call
\* before it (a successful one, nothing changed since, same listing order)
Sync ==
    /\ \E order \in EntryOrders :
           LET r == syncToAgentsMd(fs, order, rules, appName)
           IN  /\ rules' = r.rules
               /\ lastOp' = [op |-> "sync", order |-> order, result |-> r.result,
                             before |-> rules,
                             created |-> ~rules.exists /\ r.rules.exists,
                             again |-> /\ lastOp.op = "sync"
                                       /\ lastOp.order = order
                                       /\ ~lastOp.result.thrown
                                       /\ lastOp.result.success,
                             afterCreate |-> /\ lastOp.op = "sync"
                                             /\ lastOp.order = order
                                             /\ lastOp.created]
    /\ UNCHANGED <<fs, hashCache, installedSkillHashes, checkedSkills, skillCache, shown,
                   pending, syncedSkillsCache>>
    /\ UNCHANGED <<ideVars, hashVars, cmdVars>>

SyncNext == SyncDiskChange \/ RulesChange \/ Sync

SpecSync == SyncInit /\ [][SyncNext]_vars

----------------------------------------------------------------------------
(* The commands step by step: src/src/extension.ts, installSelected and    *)
(* deleteSelected between their awaits                                      *)

\* a skill of two files
TreeXA == [TreeX EXCEPT ![<< "a" >>] = File(<< "x" >>)]

\* the extension in Cursor, one repository cloned, nothing installed
CopyInit ==
    /\ env = [OPENSKILLS_IDE |-> Undefined, VSCODE_ENV_APPNAME |-> Undefined,
              PROG_IDE_NAME |-> Undefined]
    /\ appName = << "C", "u", "r", "s", "o", "r" >>
    /\ ideOut = NoCall
    /\ dirFs = EmptyDir
    /\ fpOp = NoCall
    /\ fs = [p \in SkillPaths |-> IF p[1] = "repo" THEN SkillDir(TreeXA, 0) ELSE Absent]
    /\ hashCache = clearHashCache
    /\ installedSkillHashes = EmptyIndex
    /\ checkedSkills = { }
    /\ skillCache = [k \in Keys |-> NoSkill]
    /\ shown = [k \in Keys |-> NoSkill]
    /\ pending = [r \in Repos |-> [waiting |-> FALSE, names |-> { }]]
    /\ lastOp = NoOp
    /\ rules = NoRulesFile
    /\ syncedSkillsCache = NoSynced
    /\ job = NoJob

\* the directory a delete command removes for a node, were it the directory
\* of the node itself for a LocalSkill
TargetOfNodePath(skill) ==
    IF "groupPath" \in DOMAIN skill THEN skill.path ELSE DirPath(TargetDir, skill.name)

\* the target directory of a selected skill
TargetOf(skill) == DirPath(TargetDir, skill.name)

\* installSelected up to `await vscode.window.withProgress`: the selection is
\* taken
InstallBegin ==
    /\ job.phase = "idle"
    /\ \E selected \in Selections :
           job' = [phase |-> "installing", selected |-> selected]
    /\ lastOp' = [op |-> "installBegin"]
    /\ UNCHANGED <<fs, hashCache, installedSkillHashes, checkedSkills, skillCache, shown,
                   pending>>
    /\ UNCHANGED <<ideVars, hashVars, syncVars>>

\* the callback of withProgress: the loop over the selected skills, without
\* an await; recorded with the sources and the targets as the loop found them
InstallCopy ==
    /\ job.phase = "installing"
    /\ fs' = Installed(fs, job.selected, TargetDir)
    /\ job' = [phase |-> "copied", selected |-> job.selected,
               sources |-> [s \in job.selected |-> fs[s.localPath]],
               before |-> [s \in job.selected |-> fs[TargetOf(s)]]]
    /\ lastOp' = [op |-> "installCopy"]
    /\ UNCHANGED <<hashCache, installedSkillHashes, checkedSkills, skillCache, shown,
                   pending>>
    /\ UNCHANGED <<ideVars, hashVars, syncVars>>

\* installSelected after the await: skillsProvider.clearSelection()
InstallEnd ==
    /\ job.phase = "copied"
    /\ UNCHANGED fs
    /\ checkedSkills' = { }
    /\ Refreshed
    /\ job' = NoJob
    /\ lastOp' = [op |-> "installEnd"]
    /\ UNCHANGED <<skillCache, shown, pending>>
    /\ UNCHANGED <<ideVars, hashVars, syncVars>>

\* deleteSelected up to `await vscode.window.showWarningMessage`
DeleteBegin ==
    /\ job.phase = "idle"
    /\ \E selected \in Selections :
           job' = [phase |-> "confirming", selected |-> selected]
    /\ lastOp' = [op |-> "deleteBegin"]
    /\ UNCHANGED <<fs, hashCache, installedSkillHashes, checkedSkills, skillCache, shown,
                   pending>>
    /\ UNCHANGED <<ideVars, hashVars, syncVars>>

\* deleteSelected after the await: the answer is Yes and the directories are
\* removed, then refresh(); or the answer is not Yes
DeleteEnd ==
    /\ job.phase = "confirming"
    /\ \E confirm \in { "Yes", "No" } :
           LET targets == IF confirm = "Yes"
                          THEN { p \in { TargetOf(s) : s \in job.selected } :
                                     existsSync(fs, p) }
                          ELSE { }
           IN  /\ fs' = Removed(fs, targets)
               /\ IF confirm = "Yes" THEN Refreshed
                  ELSE UNCHANGED <<hashCache, installedSkillHashes>>
               /\ lastOp' = [op |-> "deleteEnd", removed |-> targets]
    /\ job' = NoJob
    /\ UNCHANGED <<checkedSkills, skillCache, shown, pending>>
    /\ UNCHANGED <<ideVars, hashVars, syncVars>>

\* git pull changes the working tree of the repository while a command can
\* be waiting
CopyPull ==
    /\ \E r \in Repos, n \in SkillNames,
          node \in { SkillDir(TreeXA, 0), SkillDir(TreeY, 0) } :
           /\ node # fs[RepoPath(r, n)]
           /\ fs' = [fs EXCEPT ![RepoPath(r, n)] = node]
    /\ lastOp' = [op |-> "copyPull"]
    /\ UNCHANGED <<hashCache, installedSkillHashes, checkedSkills, skillCache, shown,
                   pending, job>>
    /\ UNCHANGED <<ideVars, hashVars, syncVars>>

\* a step of a handler of the provider that leaves the command waiting
Meanwhile(A) == A /\ UNCHANGED job

CopyNext ==
    \/ InstallBegin
    \/ InstallCopy
    \/ InstallEnd
    \/ DeleteBegin
    \/ DeleteEnd
    \/ CopyPull
    \/ Meanwhile(ExpandStart)
    \/ Meanwhile(ExpandFinish)
    \/ Meanwhile(Refresh)

SpecCopy == CopyInit /\ [][CopyNext]_vars

\* the directory holds everything copyRecursiveSync of that source onto
\* that earlier directory gives, and nothing else
FullCopy(node, source, before) ==
    /\ node.exists
    /\ node.tree = copyRecursiveSync(source.tree, before.tree)

C23_ResumedWitness ==
    /\ job.phase = "copied"
    /\ lastOp.op = "expand"

\* a skill was removed while an expansion awaits its listing
C23_DeleteWitness ==
    /\ lastOp.op = "deleteEnd"
    /\ lastOp.removed # { }
    /\ \E r \in Repos : pending[r].waiting

----------------------------------------------------------------------------
(* Listing several repositories: src/src/skillsProvider.ts, getChildren *)

\* SkillsProvider.getLocalSkillsGroups(): a group for each directory of
\* getSkillDirectories, kept when it is the active one or holds a visible
\* folder with a SKILL.md
getLocalSkillsGroups(f, name) ==
    LET activeProjectSkillsPath == getProjectSkillsDir(name)
        group(dir) == [path |-> dir.path, isProject |-> dir.isProject,
                       isActive |-> dir.path = activeProjectSkillsPath]
        groups == [i \in DOMAIN getSkillDirectories |-> group(getSkillDirectories[i])]
        kept(g) ==
            \/ g.isActive
            \/ \E n \in EntryNames :
                   /\ isDirectory(f, DirPath(g.path, n))
                   /\ ~startsWith(n, << "." >>)
                   /\ hasSkillMd(f, DirPath(g.path, n))
    IN  SelectSeq(groups, kept)

\* the configured repositories (ConfigManager.getRepos())
ExpandRepos == { "r1", "r2" }

ExpandKeys == ExpandRepos \X SkillNames

ExpandPaths == SkillPaths \cup { RepoPath(r, n) : r \in ExpandRepos, n \in SkillNames }

\* the extension in Cursor with two repositories configured and cloned, and
\* a skill installed
ExpandInit ==
    /\ env = [OPENSKILLS_IDE |-> Undefined, VSCODE_ENV_APPNAME |-> Undefined,
              PROG_IDE_NAME |-> Undefined]
    /\ appName = << "C", "u", "r", "s", "o", "r" >>
    /\ ideOut = NoCall
    /\ dirFs = EmptyDir
    /\ fpOp = NoCall
    /\ fs = [p \in ExpandPaths |->
                IF p[1] = "repo" \/ p = DirPath(CURSOR_SKILLS, ALPHA)
                THEN SkillDir(TreeX, 0) ELSE Absent]
    /\ hashCache = [p \in ExpandPaths |-> NoEntry]
    /\ installedSkillHashes = EmptyIndex
    /\ checkedSkills = { }
    /\ skillCache = [k \in ExpandKeys |-> NoSkill]
    /\ shown = [k \in ExpandKeys |-> NoSkill]
    /\ pending = [r \in ExpandRepos |-> [waiting |-> FALSE, names |-> { }]]
    /\ lastOp = NoOp
    /\ rules = NoRulesFile
    /\ syncedSkillsCache = NoSynced
    /\ job = NoJob

\* git changes the working tree of a repository
ExpandDiskChange ==
    /\ \E p \in { RepoPath(r, n) : r \in ExpandRepos, n \in SkillNames },
          node \in { Absent, SkillDir(TreeY, 0) } :
           /\ node # fs[p]
           /\ fs' = [fs EXCEPT ![p] = node]
    /\ lastOp' = [op |-> "expandDisk"]
    /\ UNCHANGED <<hashCache, installedSkillHashes, checkedSkills, skillCache, shown,
                   pending>>
    /\ UNCHANGED <<ideVars, hashVars, syncVars, cmdVars>>

\* getChildren(undefined): the local groups, then the configured
\* repositories
GetChildrenOfRoot ==
    /\ lastOp' = [op |-> "rootList", groups |-> getLocalSkillsGroups(fs, appName),
                  repos |-> DOMAIN pending,
                  failedBefore |-> IF lastOp.op = "expandFailed"
                                   THEN { lastOp.repo } ELSE { }]
    /\ UNCHANGED <<fs, hashCache, installedSkillHashes, checkedSkills, skillCache, shown,
                   pending>>
    /\ UNCHANGED <<ideVars, hashVars, syncVars, cmdVars>>

ExpandNext ==
    ExpandDiskChange \/ GetChildrenOfRoot \/ ExpandStart \/ ExpandFinish \/ ExpandFail

SpecExpand == ExpandInit /\ [][ExpandNext]_vars

\* the skills the tree shows under a repository
ShownOf(r) == { shown[k] : k \in { j \in DOMAIN shown : j[1] = r } } \ { NoSkill }

\* C22: when listing the skills of a repository fails, the failure is
\* reported once, for that repository, and its expansion returns the empty
\* list; the skills shown under every other repository stay, the pending
\* expansions of the others stay pending, a later or pending expansion of
\* another repository returns the skills of its listing, and the root
\* listing returns the groups and all configured repositories.
C22_FailureStaysInItsRepository ==
    /\ lastOp.op = "expandFailed" =>
           /\ lastOp.errors = << lastOp.repo >>
           /\ ShownOf(lastOp.repo) = { }
           /\ \A k \in DOMAIN lastOp.others : shown[k] = lastOp.others[k]
           /\ \A o \in lastOp.waiting : pending[o].waiting
    /\ lastOp.op = "expand" =>
           { s.name : s \in ShownOf(lastOp.repo) } = lastOp.names
    /\ lastOp.op = "rootList" =>
           /\ lastOp.repos = ExpandRepos
           /\ lastOp.groups = getLocalSkillsGroups(fs, appName)

\* the listing of one repository failed while the other repository shows
\* a skill
C22_Witness ==
    /\ lastOp.op = "expandFailed"
    /\ \E k \in DOMAIN lastOp.others : shown[k] # NoSkill

\* the listing of one repository failed while the expansion of the other
\* one waits for its listing
C22_PendingWitness ==
    /\ lastOp.op = "expandFailed"
    /\ lastOp.waiting # { }

\* a repository returned its skills right after the listing of the other
\* one failed
C22_OtherWitness ==
    /\ lastOp.op = "expand"
    /\ lastOp.failedBefore # { }
    /\ ShownOf(lastOp.repo) # { }

\* the root was listed right after the listing of a repository failed
C22_RootWitness ==
    /\ lastOp.op = "rootList"
    /\ lastOp.failedBefore # { }
    /\ Len(lastOp.groups) > 0

----------------------------------------------------------------------------
(* The active group of the root listing *)

\* vscode.env.appName of the supported hosts
HostAppNames ==
    AppNames \cup { << "W", "i", "n", "d", "s", "u", "r", "f" >>, << "T", "r", "a", "e" >>,
                    << "A", "n", "t", "i", "g", "r", "a", "v", "i", "t", "y" >> }

\* the extension in one of the hosts, with or without the override, a
\* workspace open, nothing installed
GroupsInit ==
    /\ appName \in HostAppNames
    /\ env \in Envs
    /\ ideOut = NoCall
    /\ dirFs = EmptyDir
    /\ fpOp = NoCall
    /\ ProviderIdle

GroupsNext == SyncDiskChange \/ GetChildrenOfRoot

SpecGroups == GroupsInit /\ [][GroupsNext]_vars

\* the groups of the root listing that are marked active
ActiveGroups == { i \in DOMAIN lastOp.groups : lastOp.groups[i].isActive }

\* C24: with a workspace open, in every supported host exactly one local
\* skills group of the root listing is marked active, and its path is the
\* directory the install commands write to.
C24_ExactlyOneActiveGroup ==
    lastOp.op = "rootList" =>
        /\ Cardinality(ActiveGroups) = 1
        /\ \A i \in ActiveGroups : lastOp.groups[i].path = targetBase(env, appName)

\* never more than one group is active; in a host whose project directory
\* getSkillDirectories lists, exactly one is, and it is the directory of
\* getProjectSkillsDir for the application name
C24_ActiveGroupOfListedHosts ==
    lastOp.op = "rootList" =>
        /\ Cardinality(ActiveGroups) <= 1
        /\ \A i \in ActiveGroups : lastOp.groups[i].path = getProjectSkillsDir(appName)
        /\ (\E i \in DOMAIN getSkillDirectories :
                getSkillDirectories[i].path = getProjectSkillsDir(appName))
               => Cardinality(ActiveGroups) = 1

\* the root was listed in VS Code and no group is active
C24_NoActiveWitness ==
    /\ lastOp.op = "rootList"
    /\ appName = << "C", "o", "d", "e" >>
    /\ ActiveGroups = { }

\* the root was listed in Cursor with skills on disk: one group is active
C24_ActiveWitness ==
    /\ lastOp.op = "rootList"
    /\ Cardinality(ActiveGroups) = 1
    /\ Len(lastOp.groups) > 1

----------------------------------------------------------------------------
(* The scope of an installed skill: src/unnamed/part_001,                  *)
(* findAllInstalledSkills, for any workspace root and home directory       *)

\* A path is the sequence of its segments, a segment a sequence of
\* characters; PathString is the string of an absolute path
RECURSIVE PathString(_)
PathString(path) ==
    IF path = << >> THEN << >>
    ELSE << "/" >> \o Head(path) \o PathString(Tail(path))

\* path.join(base, ...segments)
pathJoin(base, segments) == base \o segments

\* path.relative(from, to) with `/` between the segments: `..` for each
\* segment of `from` below the common directory, then the rest of `to`
RECURSIVE pathRelative(_, _)
pathRelative(from, to) ==
    IF from # << >> /\ to # << >> /\ Head(from) = Head(to)
    THEN pathRelative(Tail(from), Tail(to))
    ELSE [i \in 1..Len(from) |-> << ".", "." >>] \o to

\* the directories of getSkillDirectories below the workspace root or the
\* home directory
SkillDirectorySegments ==
    << << << ".", "a", "g", "e", "n", "t" >>, << "s", "k", "i", "l", "l", "s" >> >>,
       << << ".", "c", "u", "r", "s", "o", "r" >>, << "s", "k", "i", "l", "l", "s" >> >>,
       << << ".", "t", "r", "a", "e" >>, << "s", "k", "i", "l", "l", "s" >> >>,
       << << ".", "w", "i", "n", "d", "s", "u", "r", "f" >>,
          << "s", "k", "i", "l", "l", "s" >> >>,
       << << ".", "a", "g", "e", "n", "t" >>, << "s", "k", "i", "l", "l", "s" >> >>,
       << << ".", "c", "o", "d", "e", "x" >>, << "s", "k", "i", "l", "l", "s" >> >>,
       << << ".", "c", "l", "a", "u", "d", "e" >>, << "s", "k", "i", "l", "l", "s" >> >> >>

\* getSearchDirs(workspaceRoot)[i] with os.homedir() = home
searchDir(i, workspaceRoot, home) ==
    pathJoin(IF getSkillDirectories[i].isProject THEN workspaceRoot ELSE home,
             SkillDirectorySegments[i])

\* the InstalledSkill findAllInstalledSkills pushes for the entry `name` of
\* the i-th search directory: isProjectLocal is dir.startsWith(workspaceRoot)
\* on the strings
scopedSkill(i, name, workspaceRoot, home) ==
    LET dir == searchDir(i, workspaceRoot, home)
        skillPath == pathJoin(dir, << name, SKILLMD >>)
        isProjectLocalOfDir == startsWith(PathString(dir), PathString(workspaceRoot))
    IN  [name |-> name,
         location |-> IF isProjectLocalOfDir THEN "project" ELSE "global",
         path |-> pathJoin(dir, << name >>),
         explicitLocation |-> IF isProjectLocalOfDir
                              THEN pathRelative(workspaceRoot, skillPath)
                              ELSE Undefined]

\* workspace roots and home directories: apart, one inside the other, the
\* same, and with names that begin alike
ScopeRoots ==
    { << << "w" >> >>, << << "w" >>, << "p" >> >>, << << "h" >> >>,
      << << "h" >>, << "u" >> >> }

ScopeHomes ==
    { << << "h" >>, << "u" >> >>, << << "h" >> >>, << << "w" >>, << "p" >> >>,
      << << "w", "2" >> >>, << << "h" >>, << "u", "2" >> >> }

\* nothing scanned yet
ScopeInit ==
    /\ env = [OPENSKILLS_IDE |-> Undefined, VSCODE_ENV_APPNAME |-> Undefined,
              PROG_IDE_NAME |-> Undefined]
    /\ appName = << "C", "u", "r", "s", "o", "r" >>
    /\ ideOut = NoCall
    /\ dirFs = EmptyDir
    /\ fpOp = NoCall
    /\ ProviderIdle

\* findAllInstalledSkills meets a skill in one of its search directories
ScopeSkill ==
    /\ \E i \in DOMAIN getSkillDirectories, n \in EntryNames,
          workspaceRoot \in ScopeRoots, home \in ScopeHomes :
           lastOp' = [op |-> "scope", dir |-> i, workspaceRoot |-> workspaceRoot,
                      home |-> home,
                      skill |-> scopedSkill(i, n, workspaceRoot, home)]
    /\ UNCHANGED <<fs, hashCache, installedSkillHashes, checkedSkills, skillCache, shown,
                   pending>>
    /\ UNCHANGED <<ideVars, hashVars, syncVars, cmdVars>>

ScopeNext == ScopeSkill

SpecScope == ScopeInit /\ [][ScopeNext]_vars

\* the explicit location leaves the workspace
LeavesWorkspace(explicitLocation) ==
    explicitLocation # << >> /\ Head(explicitLocation) = << ".", "." >>

\* C25: for every workspace root and every home directory, a skill gets the
\* location `project` exactly when it was found in a project-level search
\* directory and `global` exactly when in a user-global one, and the
\* explicit location of a project skill is a path inside the workspace.
C25_ScopeIsTheDirectoryLevel ==
    lastOp.op = "scope" =>
        /\ (lastOp.skill.location = "project") = getSkillDirectories[lastOp.dir].isProject
        /\ (lastOp.skill.location = "global") = ~getSkillDirectories[lastOp.dir].isProject
        /\ lastOp.skill.location = "project"
               => ~LeavesWorkspace(lastOp.skill.explicitLocation)

\* the string of the home directory does not begin with the string of the
\* workspace root
HomeApart(workspaceRoot, home) ==
    ~startsWith(PathString(home), PathString(workspaceRoot))

\* the scope is the level of the directory when the home directory lies
\* apart from the workspace root
C25_ScopeWhenHomeApart ==
    lastOp.op = "scope" /\ HomeApart(lastOp.workspaceRoot, lastOp.home) =>
        /\ (lastOp.skill.location = "project") = getSkillDirectories[lastOp.dir].isProject
        /\ lastOp.skill.location = "project"
               => ~LeavesWorkspace(lastOp.skill.explicitLocation)

\* a skill of a home directory whose name begins like the workspace root is
\* given the location `project` and an explicit location outside the workspace
C25_SiblingWitness ==
    /\ lastOp.op = "scope"
    /\ ~getSkillDirectories[lastOp.dir].isProject
    /\ lastOp.skill.location = "project"
    /\ LeavesWorkspace(lastOp.skill.explicitLocation)

\* a skill of the home directory, the workspace being the home directory
C25_HomeIsWorkspaceWitness ==
    /\ lastOp.op = "scope"
    /\ lastOp.workspaceRoot = lastOp.home
    /\ ~getSkillDirectories[lastOp.dir].isProject
    /\ lastOp.skill.location = "project"

----------------------------------------------------------------------------
(* Synced marks of the tree: src/README.md, SkillsProvider *)

\* the skill entries the regular expression of updateSyncedSkillsCache finds
\* in a content, in the order of the file
SkillEntries(content) ==
    LET RECURSIVE Found(_)
        Found(lines) ==
            IF lines = << >> THEN << >>
            ELSE IF Head(lines).kind = "skill" THEN << Head(lines) >> \o Found(Tail(lines))
            ELSE Found(Tail(lines))
    IN  Found(content)

\* updateSyncedSkillsCache(): the cache is cleared; a missing rules file
\* leaves it empty; readFileSync can throw; each entry found sets the
\* location of its name, a later entry of the same name over an earlier one
updateSyncedSkillsCache(file) ==
    LET RECURSIVE Set(_, _)
        Set(entries, cache) ==
            IF entries = << >> THEN cache
            ELSE Set(Tail(entries),
                     [cache EXCEPT ![Head(entries).name] = Head(entries).location])
    IN  IF ~file.exists THEN [thrown |-> FALSE, cache |-> NoSynced]
        ELSE IF file.fault = "read" THEN [thrown |-> TRUE, cache |-> NoSynced]
        ELSE [thrown |-> FALSE, cache |-> Set(SkillEntries(file.content), NoSynced)]

\* isSkillSynced that takes `global` for the location of a project skill
isSkillSyncedSwapped(cache, skillName, isProjectSkill) ==
    IF cache[skillName] = "" THEN FALSE
    ELSE (cache[skillName] = "global") = isProjectSkill

\* isSkillSynced(skillName, isProjectSkill)
isSkillSynced(cache, skillName, isProjectSkill) ==
    LET syncedLocation == cache[skillName]
    IN  IF syncedLocation = "" THEN FALSE
        ELSE (syncedLocation # "global") = isProjectSkill

\* a rules file somebody merged by hand: one block with an entry of the
\* same name for the project and for the home directory, in either order
MergedContents ==
    LET project == Line("skill", "", ALPHA, CURSOR_SKILLS)
        global == Line("skill", "", ALPHA, "global")
    IN  { << StartMarker, project, global, EndMarker >>,
          << StartMarker, global, project, EndMarker >> }

\* the extension in Cursor, no skills installed, no rules file
SyncedInit ==
    /\ env = [OPENSKILLS_IDE |-> Undefined, VSCODE_ENV_APPNAME |-> Undefined,
              PROG_IDE_NAME |-> Undefined]
    /\ appName = << "C", "u", "r", "s", "o", "r" >>
    /\ ideOut = NoCall
    /\ dirFs = EmptyDir
    /\ fpOp = NoCall
    /\ ProviderIdle

\* a skill folder is installed or deleted
SyncedDiskChange ==
    /\ \E p \in SyncPaths, node \in { SkillDir(TreeX, 0), Absent } :
           /\ node # fs[p]
           /\ fs' = [fs EXCEPT ![p] = node]
    /\ lastOp' = [op |-> "syncedDisk"]
    /\ UNCHANGED <<hashCache, installedSkillHashes, checkedSkills, skillCache, shown,
                   pending>>
    /\ UNCHANGED <<ideVars, hashVars, syncVars, cmdVars>>

\* another program deletes the rules file, writes a merged one, or makes
\* reading it fail or work
RulesEdit ==
    /\ \E file \in { RulesFile(TRUE, FALSE, << >>, rules.fault) }
                       \cup { RulesFile(TRUE, TRUE, c, rules.fault) : c \in MergedContents }
                       \cup { [rules EXCEPT !.fault = x] : x \in { "none", "read" } } :
           /\ file # rules
           /\ rules' = file
    /\ lastOp' = [op |-> "rulesEdit"]
    /\ UNCHANGED <<fs, hashCache, installedSkillHashes, checkedSkills, skillCache, shown,
                   pending, syncedSkillsCache>>
    /\ UNCHANGED <<ideVars, hashVars, cmdVars>>

\* getChildren(undefined): the root listing rebuilds the cache of synced
\* skills; recorded with the sync call it follows, if it follows one
RootListing ==
    /\ LET r == updateSyncedSkillsCache(rules)
       IN  /\ syncedSkillsCache' = r.cache
           /\ lastOp' = [op |-> "root", thrown |-> r.thrown,
                         synced |-> IF lastOp.op = "sync" /\ ~lastOp.result.thrown
                                       /\ lastOp.result.success
                                    THEN lastOp.result.count ELSE 0,
                         order |-> IF lastOp.op = "sync" THEN lastOp.order
                                   ELSE SkillNameSeq]
    /\ UNCHANGED <<fs, hashCache, installedSkillHashes, checkedSkills, skillCache, shown,
                   pending, rules>>
    /\ UNCHANGED <<ideVars, hashVars, cmdVars>>

SyncedNext == SyncedDiskChange \/ RulesEdit \/ Sync \/ RootListing

SpecSynced == SyncedInit /\ [][SyncedNext]_vars

\* the content holds a skill entry of that name and that scope
HasEntry(content, name, isProject) ==
    \E i \in DOMAIN content :
        /\ content[i].kind = "skill"
        /\ content[i].name = name
        /\ (content[i].location # "global") = isProject

\* C21: for every content of the rules file of the active host, once the
\* cache is rebuilt from it, isSkillSynced(name, isProject) is true exactly
\* when the file holds a skill entry of that name whose location has that
\* scope; it is false when the file is missing or holds no such entry.
C21_SyncedIffEntryOfScope ==
    lastOp.op = "root" /\ ~lastOp.thrown =>
        \A n \in EntryNames, isProject \in BOOLEAN :
            isSkillSynced(syncedSkillsCache, n, isProject)
                <=> rules.exists /\ HasEntry(rules.content, n, isProject)

\* at most one entry of each name in the content
UniqueEntries(content) ==
    \A i, j \in DOMAIN content :
        content[i].kind = "skill" /\ content[j].kind = "skill"
            /\ content[i].name = content[j].name => i = j

\* isSkillSynced follows the entries of a rules file that names no skill
\* twice, and is false of every skill when the file is missing
C21_SyncedIffEntryWhenUnique ==
    lastOp.op = "root" /\ ~lastOp.thrown /\ UniqueEntries(rules.content) =>
        \A n \in EntryNames, isProject \in BOOLEAN :
            isSkillSynced(syncedSkillsCache, n, isProject)
                <=> rules.exists /\ HasEntry(rules.content, n, isProject)

\* the cache was rebuilt from a file that names a skill twice
C21_DuplicateWitness ==
    /\ lastOp.op = "root"
    /\ ~lastOp.thrown
    /\ rules.exists
    /\ ~UniqueEntries(rules.content)

\* the cache was rebuilt from a file written by a sync with two skills
C21_UniqueWitness ==
    /\ lastOp.op = "root"
    /\ lastOp.synced = 2
    /\ isSkillSynced(syncedSkillsCache, ALPHA, TRUE)

----------------------------------------------------------------------------
(* The fingerprint cache on a disk that can fail *)

\* The path the directory is probed at
ProbedPath == RepoPath("r1", ALPHA)

\* What the path can hold: nothing, or a skill directory on which statSync
\* or readdirSync fails or not
ProbedNodes ==
    { Absent } \cup { FailingDir(t, m, x) : t \in { TreeX, TreeY }, m \in Mtimes, x \in Faults }

CacheInit ==
    /\ env = [OPENSKILLS_IDE |-> Undefined, VSCODE_ENV_APPNAME |-> Undefined,
              PROG_IDE_NAME |-> Undefined]
    /\ appName = << >>
    /\ ideOut = NoCall
    /\ dirFs = EmptyDir
    /\ fpOp = NoCall
    /\ ProviderIdle

\* another program creates, rewrites, removes the directory, or its
\* permissions change
DiskChange ==
    /\ \E node \in ProbedNodes :
           /\ node # fs[ProbedPath]
           /\ fs' = [fs EXCEPT ![ProbedPath] = node]
    /\ lastOp' = [op |-> "disk"]
    /\ UNCHANGED <<hashCache, installedSkillHashes, checkedSkills, skillCache, shown,
                   pending>>
    /\ UNCHANGED <<ideVars, hashVars, syncVars, cmdVars>>

\* getCachedDirectoryHash(dirPath), recorded with the cache it found
CallGetCachedDirectoryHash ==
    /\ LET r == getCachedDirectoryHash(hashCache, fs, ProbedPath)
       IN  /\ hashCache' = r.cache
           /\ lastOp' = [op |-> "cached", returned |-> r.hash, before |-> hashCache]
    /\ UNCHANGED <<fs, installedSkillHashes, checkedSkills, skillCache, shown, pending>>
    /\ UNCHANGED <<ideVars, hashVars, syncVars, cmdVars>>

\* clearHashCache()
CallClearHashCache ==
    /\ hashCache' = clearHashCache
    /\ lastOp' = [op |-> "clear"]
    /\ UNCHANGED <<fs, installedSkillHashes, checkedSkills, skillCache, shown, pending>>
    /\ UNCHANGED <<ideVars, hashVars, syncVars, cmdVars>>

CacheNext == DiskChange \/ CallGetCachedDirectoryHash \/ CallClearHashCache

SpecCache == CacheInit /\ [][CacheNext]_vars

\* The empty string getCachedDirectoryHash returns for "no fingerprint"
EmptySentinel == << >>

\* The call found the path missing, or its statSync failed, or it had to
\* list the directory (no entry with the current mtime) and readdirSync
\* failed
ProbeFailed ==
    \/ ~fs[ProbedPath].exists
    \/ fs[ProbedPath].fault = "stat"
    \/ fs[ProbedPath].fault = "readdir" /\ ~CacheHit(lastOp.before, fs, ProbedPath)

\* C13: for a path that does not exist, or whose stat or listing fails,
\* getCachedDirectoryHash returns the empty sentinel (it does not throw: the
\* call has a result) and leaves the cache as it was; in every other case it
\* returns a fingerprint, which is never the sentinel.
C13_FailureGivesSentinel ==
    lastOp.op = "cached" =>
        /\ ProbeFailed => (lastOp.returned = EmptySentinel /\ hashCache = lastOp.before)
        /\ ~ProbeFailed => lastOp.returned # EmptySentinel

\* C13 witness: the listing of an existing directory failed while the cache
\* held an entry with another mtime; the sentinel was returned and the
\* entry kept
C13_Witness ==
    /\ lastOp.op = "cached"
    /\ fs[ProbedPath].exists
    /\ fs[ProbedPath].fault = "readdir"
    /\ lastOp.before[ProbedPath].cached
    /\ lastOp.before[ProbedPath].mtime # fs[ProbedPath].mtime
    /\ lastOp.returned = EmptySentinel
    /\ hashCache[ProbedPath] = lastOp.before[ProbedPath]

\* The path was missing, and the cache without an entry stayed so
C13_MissingWitness ==
    /\ lastOp.op = "cached"
    /\ ~fs[ProbedPath].exists
    /\ lastOp.returned = EmptySentinel
    /\ ~hashCache[ProbedPath].cached

\* statSync failed on a directory whose entry had the current mtime
C13_StatWitness ==
    /\ lastOp.op = "cached"
    /\ fs[ProbedPath].fault = "stat"
    /\ CacheHit(lastOp.before, fs, ProbedPath)
    /\ lastOp.returned = EmptySentinel

----------------------------------------------------------------------------
(* Rules-file synchronizer: properties *)

\* the names of the skill entries inside the generated block of a content
BlockNames(content) ==
    LET span == BlockSpan(content)
    IN  IF span = << >> THEN { }
        ELSE { content[i].name : i \in { k \in DOMAIN content :
                                            /\ span[1] < k /\ k < span[2]
                                            /\ content[k].kind = "skill" } }

\* the skills the scanner gave the sync call recorded in lastOp
SyncedSkills == findAllInstalledSkills(fs, lastOp.order)

\* the recorded call returned a result with success = true
SyncSucceeded ==
    /\ lastOp.op = "sync"
    /\ ~lastOp.result.thrown
    /\ lastOp.result.success

\* C17: after any installs and deletes, whenever syncToAgentsMd returns
\* success, the names in the generated block of the rules file are the names
\* of the installed skills, whatever their number, and the count returned is
\* that number.
C17_BlockListsInstalledSet ==
    SyncSucceeded =>
        /\ BlockNames(rules.content) = NamesOf(SyncedSkills)
        /\ lastOp.result.count = Len(SyncedSkills)

\* a successful sync with at least one skill installed leaves the block
\* with the names of the installed skills, and returns their number
C17_NonEmptySetListed ==
    SyncSucceeded /\ Len(SyncedSkills) > 0 =>
        /\ BlockNames(rules.content) = NamesOf(SyncedSkills)
        /\ lastOp.result.count = Len(SyncedSkills)

\* a sync succeeded with no skill installed while the block of the rules
\* file lists a skill
C17_StaleBlock ==
    /\ SyncSucceeded
    /\ Len(SyncedSkills) = 0
    /\ BlockNames(rules.content) # { }

\* C18: a second call of syncToAgentsMd right after a successful one, the
\* skills directories and the rules file untouched in between and read in
\* the same order, leaves the rules file as the first call left it, whether
\* the first call created the file or found it.
C18_SecondSyncSameFile ==
    lastOp.op = "sync" /\ lastOp.again => rules = lastOp.before

\* the second call after a call that created the rules file, two skills in
\* the block
C18_Witness ==
    /\ lastOp.op = "sync"
    /\ lastOp.again
    /\ lastOp.afterCreate
    /\ lastOp.result.count = 2
    /\ rules.exists

\* the second call after a call that found a rules file with a block and a
\* line of the user after it
C18_ExistingWitness ==
    /\ lastOp.op = "sync"
    /\ lastOp.again
    /\ ~lastOp.afterCreate
    /\ lastOp.result.count > 0
    /\ rules.exists
    /\ rules.content[Len(rules.content)] = UserText
    /\ BlockSpan(rules.content) # << >>

\* C19: with no skill installed, syncToAgentsMd returns success = true,
\* count 0 and the message that there is nothing to sync; it returns no
\* error result and throws nothing.
C19_ZeroSkillsIsSuccess ==
    lastOp.op = "sync" /\ Len(SyncedSkills) = 0 =>
        /\ ~lastOp.result.thrown
        /\ lastOp.result.success
        /\ lastOp.result.count = 0
        /\ lastOp.result.message = << "No skills installed. Install skills first." >>

\* a sync with no skill installed, while writing the rules file would fail
C19_Witness ==
    /\ lastOp.op = "sync"
    /\ Len(SyncedSkills) = 0
    /\ rules.fault = "write"
    /\ lastOp.result.success

\* a sync with no skill reported although a folder with a SKILL.md is on
\* the disk
C19_UnreadableWitness ==
    /\ lastOp.op = "sync"
    /\ Len(SyncedSkills) = 0
    /\ \E p \in SyncPaths : fs[p] # Absent
    /\ lastOp.result.success

\* the call recorded in lastOp met a failing mkdirSync, readFileSync or
\* writeFileSync on the rules file
FileFailure ==
    /\ lastOp.op = "sync"
    /\ Len(SyncedSkills) > 0
    /\ \/ lastOp.before.fault = "mkdir" /\ ~lastOp.before.dirExists
       \/ lastOp.before.fault = "read" /\ lastOp.before.exists
       \/ lastOp.before.fault = "write"

\* the scan of the call recorded in lastOp met a SKILL.md it could not read
\* in the first directory it searched
ScanFailure ==
    /\ lastOp.op = "sync"
    /\ \E n \in EntryNames :
           /\ DirPath(CURSOR_SKILLS, n) \in SyncPaths
           /\ fs[DirPath(CURSOR_SKILLS, n)] = SkillDir(TreeD, 0)

C20_MkdirWitness ==
    /\ FileFailure
    /\ lastOp.before.fault = "mkdir"
    /\ ~lastOp.result.success

\* reading the rules file failed
C20_ReadWitness ==
    /\ FileFailure
    /\ lastOp.before.fault = "read"
    /\ ~lastOp.result.success

\* a sync succeeded although the scan met an unreadable SKILL.md
C20_ScanWitness ==
    /\ ScanFailure
    /\ lastOp.result.success
    /\ lastOp.result.count > 0

----------------------------------------------------------------------------
(* Content fingerprinting: properties *)

\* The lines of the non-hidden files and links of a directory, as a set,
\* read off the tree without any enumeration order
RECURSIVE VisibleLines(_, _)
VisibleLines(dir, prefix) ==
    UNION { IF n[1] = "." \/ dir[n].kind = "none" THEN { }
            ELSE IF dir[n].kind = "dir"
                 THEN VisibleLines(dir[n].kids, prefix \o n \o << "/" >>)
                 ELSE { [path |-> prefix \o n, kind |-> dir[n].kind, data |-> dir[n].data] }
            : n \in Names }

\* C9: the fingerprint of a directory does not depend on the order in which
\* the filesystem enumerates entries at any depth: whatever listing a call
\* of computeDirectoryHash was given, its result is the one fingerprint
\* every listing of the unmodified directory gives.
C9_OrderIndependent ==
    fpOp.op = "hash" => Fingerprints(dirFs) = { fpOp.after }

\* C9 witness: a directory with two levels and at least two entries on one
\* level was fingerprinted from a listing that is not in sorted order
C9_Witness ==
    /\ fpOp.op = "hash"
    /\ Len(fpOp.listing) >= 2
    /\ StringLess(fpOp.listing[2].name, fpOp.listing[1].name)
    /\ \E i \in 1..Len(fpOp.listing) :
           fpOp.listing[i].kind = "dir" /\ fpOp.listing[i].name[1] # "."
           /\ Len(fpOp.listing[i].kids) >= 1
    /\ Cardinality(Listings(dirFs)) >= 2

\* The directory was changed so that every fingerprint it can get now
\* differs from every fingerprint it could get before
FingerprintChanged == Fingerprints(fpOp.prev) \cap Fingerprints(dirFs) = { }

FingerprintKept == Fingerprints(fpOp.prev) = Fingerprints(dirFs)

\* C10: changing the bytes of a non-hidden file, adding or removing a
\* non-hidden file or link, or renaming one changes the fingerprint; adding
\* a file, link or directory whose name starts with a dot, at any depth,
\* leaves it unchanged.  (Non-hidden: no component of its path starts with
\* a dot.)
C10_Sensitivity ==
    /\ (/\ fpOp.op \in {"add", "write", "remove", "rename"}
        /\ fpOp.kind \in {"file", "link"}
        /\ ~HiddenPath(fpOp.path))
       => FingerprintChanged
    /\ (/\ fpOp.op = "add"
        /\ fpOp.path[Len(fpOp.path)][1] = ".")
       => FingerprintKept

\* C10 witness: a nested non-hidden file was renamed and the fingerprint
\* changed
C10_Witness ==
    /\ fpOp.op = "rename"
    /\ Len(fpOp.path) = 2
    /\ ~HiddenPath(fpOp.path)
    /\ fpOp.kind = "file"
    /\ FingerprintChanged

\* A hidden file was added below a visible directory without changing the
\* fingerprint
C10_HiddenWitness ==
    /\ fpOp.op = "add"
    /\ Len(fpOp.path) = 2
    /\ fpOp.kind = "file"
    /\ fpOp.path[2][1] = "."
    /\ FingerprintKept

\* What a symbolic link at a path of a directory leads to: the entry its
\* target names in the directory of the link
Behind(dir, linkPath) ==
    IF NodeAt(dir, linkPath).data \in Names
    THEN NodeAt(dir, SiblingPath(linkPath, NodeAt(dir, linkPath).data))
    ELSE None

\* A non-hidden symbolic link of the directory leads to this path
LinkedFrom(dir, path) ==
    \E lp \in Paths :
        /\ ~HiddenPath(lp)
        /\ NodeAt(dir, lp).kind = "link"
        /\ SiblingPath(lp, NodeAt(dir, lp).data) = path

\* C11: a symbolic link contributes to the fingerprint only through its
\* relative path and its target string.  It is never followed: rewriting
\* the file a link leads to, or adding or removing an entry in the directory
\* a link leads to, leaves the fingerprint unchanged (the file or directory
\* behind the link being hidden, it contributes nothing itself); and
\* replacing a regular file by a link changes the fingerprint, also when
\* the link leads to a file with the same bytes.
C11_LinkByPathAndTarget ==
    /\ (/\ fpOp.op = "write"
        /\ HiddenPath(fpOp.path)
        /\ LinkedFrom(fpOp.prev, fpOp.path))
       => FingerprintKept
    /\ (/\ fpOp.op \in {"add", "remove"}
        /\ Len(fpOp.path) = 2
        /\ HiddenPath(fpOp.path)
        /\ LinkedFrom(fpOp.prev, SubSeq(fpOp.path, 1, 1)))
       => FingerprintKept
    /\ (/\ fpOp.op = "relink"
        /\ ~HiddenPath(fpOp.path))
       => FingerprintChanged

\* C11 witness: the hidden file a visible link leads to was rewritten and
\* the fingerprint stayed
C11_Witness ==
    /\ fpOp.op = "write"
    /\ HiddenPath(fpOp.path)
    /\ LinkedFrom(fpOp.prev, fpOp.path)
    /\ LinkedFrom(dirFs, fpOp.path)
    /\ FingerprintKept

\* A file was added to the hidden directory a visible link leads to
C11_DirectoryWitness ==
    /\ fpOp.op = "add"
    /\ Len(fpOp.path) = 2
    /\ NodeAt(dirFs, SubSeq(fpOp.path, 1, 1)).kind = "dir"
    /\ LinkedFrom(dirFs, SubSeq(fpOp.path, 1, 1))
    /\ FingerprintKept

\* A visible regular file was replaced by a link to a file with the same
\* bytes and the fingerprint changed
C11_ReplaceWitness ==
    /\ fpOp.op = "relink"
    /\ ~HiddenPath(fpOp.path)
    /\ Behind(dirFs, fpOp.path).kind = "file"
    /\ Behind(dirFs, fpOp.path).data = NodeAt(fpOp.prev, fpOp.path).data
    /\ FingerprintChanged

----------------------------------------------------------------------------
(* Host resolver: properties *)

\* The hint detectIde resolves when no override applies
EnvHint(e) ==
    IF e.VSCODE_ENV_APPNAME # Undefined /\ e.VSCODE_ENV_APPNAME # << >>
    THEN e.VSCODE_ENV_APPNAME
    ELSE IF e.PROG_IDE_NAME # Undefined /\ e.PROG_IDE_NAME # << >>
         THEN e.PROG_IDE_NAME
         ELSE << >>

\* s and t are equal up to the case of their letters
EqualIgnoringCase(s, t) ==
    /\ Len(s) = Len(t)
    /\ \A i \in 1..Len(s) : LowerChar(s[i]) = LowerChar(t[i])

\* The override names a known profile id (compared without regard to case)
OverrideMatches(e, id) ==
    /\ e.OPENSKILLS_IDE # Undefined
    /\ EqualIgnoringCase(e.OPENSKILLS_IDE, id)

\* brand occurs in hint, compared without regard to case
OccursIgnoringCase(hint, brand) ==
    \E i \in 0..(Len(hint) - Len(brand)) :
        \A k \in 1..Len(brand) : LowerChar(hint[i + k]) = brand[k]

BrandOrder == << CURSOR, WINDSURF, TRAE, ANTIGRAVITY >>

\* The first brand, in the fixed priority order, that occurs in the hint
FirstBrand(hint) ==
    LET hits == { i \in 1..Len(BrandOrder) : OccursIgnoringCase(hint, BrandOrder[i]) }
    IN  IF hits = {} THEN VSCODE
        ELSE BrandOrder[CHOOSE i \in hits : \A j \in hits : i <= j]

\* C6: when the override matches a known profile id (case-insensitively, as
\* the code lower-cases it), detectIde returns that profile whatever the
\* hint is; when the override is absent, empty or matches no known id, the
\* result is the profile resolved from the hint alone.
C6_OverridePrecedence ==
    ideOut.op = "detectIde" =>
        /\ \A id \in IdeType : OverrideMatches(env, id) => ideOut.result = id
        /\ (\A id \in IdeType : ~OverrideMatches(env, id)) =>
               ideOut.result = FirstBrand(EnvHint(env))

\* C6 witness: an override naming one profile beat a hint naming another
C6_Witness ==
    /\ ideOut.op = "detectIde"
    /\ env.OPENSKILLS_IDE = << "T", "r", "a", "e" >>
    /\ FirstBrand(EnvHint(env)) = CURSOR
    /\ ideOut.result = TRAE

\* C7: resolveIdeType returns the first brand of the order cursor, windsurf,
\* trae, antigravity that occurs in the hint without regard to case, and
\* vscode when none occurs.
C7_FirstBrandWins ==
    ideOut.op = "resolveIdeType" => ideOut.result = FirstBrand(ideOut.arg)

\* C7 witness: a hint holding two brands resolved to the earlier one in the
\* priority order although it comes later in the hint
C7_Witness ==
    /\ ideOut.op = "resolveIdeType"
    /\ ideOut.arg = << "W", "I", "N", "D", "S", "U", "R", "F",
                       "C", "u", "r", "s", "o", "r" >>
    /\ ideOut.result = CURSOR

----------------------------------------------------------------------------
(* Expansions and changes of the installed skills by other programs *)

\* the status the comparison of the installed directory and the repository
\* copy, as they are on disk, gives a skill
DiskStatus(r, n) ==
    IF ~InstalledOnDisk(n) THEN NotInstalled
    ELSE IF SameOnDisk(r, n) THEN Matched
    ELSE Conflict

\* C26: each expansion of a repository node gives its skills the match
\* status of the skills installed on disk at the time of the expansion: a
\* skill directory of the active project skills directory that another
\* program added, changed or removed shows in the next expansion, without a
\* refresh.
C26_ExpansionReflectsDisk ==
    lastOp.op = "expand" =>
        \A n \in lastOp.names :
            existsSync(fs, RepoPath(lastOp.repo, n)) =>
                shown[<< lastOp.repo, n >>].matchStatus = DiskStatus(lastOp.repo, n)

\* an expansion that found the index and the cache of the disk as it is
\* shows the status of the disk
C26_ExpansionOfFreshIndex ==
    (lastOp.op = "expand" /\ installedSkillHashes = DiskIndex /\ CacheFresh) =>
        \A n \in lastOp.names :
            existsSync(fs, RepoPath(lastOp.repo, n)) =>
                shown[<< lastOp.repo, n >>].matchStatus = DiskStatus(lastOp.repo, n)

\* an expansion begins with an index that is not the one of the disk and
\* does not rebuild it
C26_StartKeepsStaleIndex ==
    /\ lastOp.op = "expanding"
    /\ \E n \in SkillNames : installedSkillHashes[n] # DiskIndex[n]

\* an expansion has shown a skill with the status of an index that no longer
\* is the one of the disk, the fingerprint of the repository copy being the
\* one of the disk
C26_StaleIndexWitness ==
    /\ lastOp.op = "expand"
    /\ \E n \in lastOp.names :
           /\ existsSync(fs, RepoPath(lastOp.repo, n))
           /\ installedSkillHashes[n] # DiskIndex[n]
           /\ FingerprintNow(RepoPath(lastOp.repo, n))
                  = TreeHash(fs[RepoPath(lastOp.repo, n)].tree)
           /\ shown[<< lastOp.repo, n >>].matchStatus # DiskStatus(lastOp.repo, n)


----------------------------------------------------------------------------
(* What the commands on repository skills leave alone: src/src/extension.ts *)
(* installSelected, deleteSelected, installSkill, deleteSkill, with every   *)
(* kind of node the selection of the tree view can hold                     *)

\* the LocalSkillsGroup nodes of the tree; the name of a group is the
\* displayName of its directory (.cursor/skills, ~/.agent/skills), kept in
\* one piece: with its `/` it is the name of no skill directory
GroupNodes ==
    LET groups == getLocalSkillsGroups(fs, appName)
    IN  { [type |-> "local-group", name |-> << groups[i].path >>, path |-> groups[i].path]
          : i \in DOMAIN groups }

\* the nodes that pass skillsTreeView.selection.filter(item => !('url' in item))
SelectableNodes == ShownSkills \cup LocalSkills(fs) \cup GroupNodes

\* `as Skill[]`: the fields the commands read of a selected node
AsSkill(node) ==
    [name |-> node.name,
     localPath |-> IF "localPath" \in DOMAIN node THEN node.localPath ELSE Undefined]

\* installSelected / deleteSelected: the checked skills, or the selection
NodeSelections ==
    IF getCheckedSkills # { } THEN { getCheckedSkills }
    ELSE SUBSET SelectableNodes \ { { } }

\* a command on repository skills ends: the disk after it, then
\* clearSelection() or refresh(); the command is recorded with the disk and
\* the rules file it found
RepoSkillCommand(op, nodes, disk, clear) ==
    /\ fs' = disk
    /\ checkedSkills' = IF clear THEN { } ELSE checkedSkills
    /\ Refreshed
    /\ lastOp' = [op |-> op, names |-> { n.name : n \in nodes },
                  local |-> { n \in nodes : "repoUrl" \notin DOMAIN n } # { },
                  before |-> fs, rulesBefore |-> rules]
    /\ UNCHANGED <<skillCache, shown, pending>>
    /\ UNCHANGED <<ideVars, hashVars, syncVars, cmdVars>>

\* agentskills.installSelected on any selection
InstallSelectedNodes ==
    \E selected \in NodeSelections :
        RepoSkillCommand("installSelected", selected,
            Installed(fs, { AsSkill(n) : n \in selected }, TargetDir), TRUE)

\* agentskills.deleteSelected on any selection, confirmed with Yes
DeleteSelectedNodes ==
    \E selected \in NodeSelections :
        RepoSkillCommand("deleteSelected", selected,
            Removed(fs, { p \in { TargetOf(n) : n \in selected } :
                             existsSync(fs, p) }), FALSE)

\* agentskills.installSkill(node): a node without repoUrl is refused
InstallSkillNode ==
    \E node \in SelectableNodes :
        /\ "repoUrl" \in DOMAIN node
        /\ RepoSkillCommand("installSkill", { node },
               Installed(fs, { AsSkill(node) }, TargetDir), TRUE)

\* agentskills.deleteSkill(node): a node without repoUrl is refused
DeleteSkillNode ==
    \E node \in SelectableNodes :
        /\ "repoUrl" \in DOMAIN node
        /\ RepoSkillCommand("deleteSkill", { node },
               Removed(fs, { p \in { TargetOf(node) } : existsSync(fs, p) }),
               FALSE)

FrameNext ==
    \/ ExpandStart
    \/ ExpandFinish
    \/ SetChecked
    \/ InstallPersonalSkill
    \/ Sync
    \/ InstallSelectedNodes
    \/ DeleteSelectedNodes
    \/ InstallSkillNode
    \/ DeleteSkillNode

SpecFrame == Init /\ [][FrameNext]_vars

RepoSkillCommands == { "installSelected", "deleteSelected", "installSkill", "deleteSkill" }

C28_InstallWitness ==
    /\ lastOp.op \in { "installSelected", "installSkill" }
    /\ \E n \in lastOp.names :
           /\ DirPath(TargetDir, n) \in SkillPaths
           /\ ~lastOp.before[DirPath(TargetDir, n)].exists
           /\ fs[DirPath(TargetDir, n)].exists
    /\ rules.exists


----------------------------------------------------------------------------
(* The check boxes: src/src/skillsProvider.ts, setChecked, getCheckedSkills *)
(* and clearSelection, with two repositories                                *)

\* refresh() without checkedSkills.clear()
ClearSelectionRefreshOnly ==
    /\ UNCHANGED <<fs, checkedSkills>>
    /\ Refreshed
    /\ lastOp' = [op |-> "clearSelection"]
    /\ UNCHANGED <<skillCache, shown, pending>>
    /\ UNCHANGED <<ideVars, hashVars, syncVars, cmdVars>>

\* clearSelection(): checkedSkills.clear(), then refresh()
ClearSelection ==
    /\ checkedSkills' = { }
    /\ UNCHANGED fs
    /\ Refreshed
    /\ lastOp' = [op |-> "clearSelection"]
    /\ UNCHANGED <<skillCache, shown, pending>>
    /\ UNCHANGED <<ideVars, hashVars, syncVars, cmdVars>>

\* git removes a skill from the working tree of a repository, or brings it
\* back
CheckedDiskChange ==
    /\ \E node \in { Absent, SkillDir(TreeX, 0) } :
           /\ node # fs[RepoPath("r2", ALPHA)]
           /\ fs' = [fs EXCEPT ![RepoPath("r2", ALPHA)] = node]
    /\ lastOp' = [op |-> "expandDisk"]
    /\ UNCHANGED <<hashCache, installedSkillHashes, checkedSkills, skillCache, shown,
                   pending>>
    /\ UNCHANGED <<ideVars, hashVars, syncVars, cmdVars>>

CheckedNext ==
    \/ SetChecked
    \/ ClearSelection
    \/ Refresh
    \/ ExpandStart
    \/ ExpandFinish
    \/ CheckedDiskChange

SpecChecked == ExpandInit /\ [][CheckedNext]_vars

\* every checked key has its skill in the cache, and getCheckedSkills gives
\* one skill for each checked key
CheckedAreCached ==
    /\ \A k \in checkedSkills :
           /\ skillCache[k] # NoSkill
           /\ skillCache[k].repoUrl = k[1]
           /\ skillCache[k].name = k[2]
    /\ Cardinality(getCheckedSkills) = Cardinality(checkedSkills)
    /\ \A k \in DOMAIN skillCache :
           k \in checkedSkills <=> \E s \in getCheckedSkills : << s.repoUrl, s.name >> = k

\* C29: after any sequence of setChecked, clearSelection, refresh and
\* expansions of repositories, getCheckedSkills returns exactly one skill
\* for each checked key repoUrl::name: every key of the checked set has an
\* entry in the skill cache; and clearSelection leaves getCheckedSkills
\* empty.
C29_OneSkillPerCheckedKey ==
    /\ []CheckedAreCached
    /\ [][ClearSelection => (checkedSkills' = { } /\ getCheckedSkills' = { })]_vars

\* two skills of two repositories are checked, one of them no longer shown
\* since its repository lost it
C29_Witness ==
    /\ Cardinality(checkedSkills) = 2
    /\ Cardinality(getCheckedSkills) = 2
    /\ \E k \in checkedSkills : shown[k] = NoSkill

\* the selection has been cleared, the cache still holding the skills
C29_ClearedWitness ==
    /\ lastOp.op = "clearSelection"
    /\ checkedSkills = { }
    /\ \E k \in DOMAIN skillCache : skillCache[k] # NoSkill


----------------------------------------------------------------------------
(* The fingerprint and the names of the files: src/src/utils/skillCompare.ts *)
(* computeDirectoryHash on directories whose file names hold `:` or a        *)
(* newline                                                                   *)

\* file names: plain ones, one that ends in `:link`, and one that holds a
\* newline after the hex digest of a content
FileNames ==
    { << "a" >>, << "b" >>,
      << "a", ":", "l", "i", "n", "k" >>,
      << "a", ":" >> \o md5hex(<< "x" >>) \o << "\n", "b" >> }

PlainName(name) == \A i \in 1..Len(name) : name[i] \notin { ":", "\n" }

\* the most files a directory holds
MaxFiles == 2

\* the Dirents of regular files and symbolic links
NamedEntries ==
    { [name |-> n, kind |-> k, data |-> d, kids |-> << >>] :
          n \in FileNames, k \in { "file", "link" }, d \in Contents }

\* directories: sets of entries of different names
NamedDirs ==
    { dir \in SUBSET NamedEntries :
          /\ Cardinality(dir) <= MaxFiles
          /\ \A e1, e2 \in dir : e1.name = e2.name => e1 = e2 }

\* two directories, not fingerprinted yet
NamesInit ==
    /\ env = [OPENSKILLS_IDE |-> Undefined, VSCODE_ENV_APPNAME |-> Undefined,
              PROG_IDE_NAME |-> Undefined]
    /\ appName = << "C", "u", "r", "s", "o", "r" >>
    /\ ideOut = NoCall
    /\ dirFs = EmptyDir
    /\ \E dir1, dir2 \in NamedDirs : fpOp = [op |-> "dirs", dir1 |-> dir1, dir2 |-> dir2]
    /\ ProviderIdle

\* compareSkillDirectories(dir1, dir2) on two directories that exist
CompareSkillDirectories ==
    /\ fpOp.op = "dirs"
    /\ LET hash1 == computeDirectoryHash(SeqOf(fpOp.dir1))
           hash2 == computeDirectoryHash(SeqOf(fpOp.dir2))
       IN  fpOp' = [op |-> "compare", dir1 |-> fpOp.dir1, dir2 |-> fpOp.dir2,
                    hash1 |-> hash1, hash2 |-> hash2, result |-> hash1 = hash2]
    /\ UNCHANGED <<env, appName, ideOut, dirFs>>
    /\ UNCHANGED <<provVars, syncVars, cmdVars>>

NamesNext == CompareSkillDirectories

SpecNames == NamesInit /\ [][NamesNext]_vars

\* C30: the digest being free of collisions, two directories get the same
\* fingerprint only if they have the same set of entries (relative path,
\* kind regular file or symbolic link, content or link target), whatever
\* the file names are, names with `:` or a newline included.
C30_SameFingerprintSameEntries ==
    fpOp.op = "compare" => (fpOp.result => fpOp.dir1 = fpOp.dir2)

\* the same over directories whose file names hold neither `:` nor a newline
C30_SameFingerprintSameEntriesPlainNames ==
    (/\ fpOp.op = "compare"
     /\ \A e \in fpOp.dir1 \cup fpOp.dir2 : PlainName(e.name)) =>
        (fpOp.result => fpOp.dir1 = fpOp.dir2)

\* a regular file named a:link and a symbolic link named a, the content of
\* the one being the target of the other, get the same fingerprint
C30_LinkNameWitness ==
    /\ fpOp.op = "compare"
    /\ fpOp.result
    /\ fpOp.dir1 = { [name |-> << "a", ":", "l", "i", "n", "k" >>, kind |-> "file",
                      data |-> << "x" >>, kids |-> << >>] }
    /\ fpOp.dir2 = { [name |-> << "a" >>, kind |-> "link", data |-> << "x" >>,
                      kids |-> << >>] }

\* one file whose name holds a newline and two files get the same
\* fingerprint
C30_NewlineWitness ==
    /\ fpOp.op = "compare"
    /\ fpOp.result
    /\ Cardinality(fpOp.dir1) = 1
    /\ Cardinality(fpOp.dir2) = 2
    /\ \E e \in fpOp.dir1 : \E i \in 1..Len(e.name) : e.name[i] = "\n"

\* two directories of plain names and different entries are told apart
C30_PlainWitness ==
    /\ fpOp.op = "compare"
    /\ ~fpOp.result
    /\ Cardinality(fpOp.dir1) = 2
    /\ { e.name : e \in fpOp.dir1 } = { e.name : e \in fpOp.dir2 }
    /\ \A e \in fpOp.dir1 \cup fpOp.dir2 : PlainName(e.name)

====
